---- MODULE Spec2Model ----
(***************************************************************************)
(* ParkSense-AI analytics core: the carpark dataset, the historical        *)
(* tracker, the alert system, the search and the nearest-carpark finder    *)
(* (features.py), the parking analyzer (analyzer.py) and the policy        *)
(* simulator (policy_simulator.py), as a state machine over one UI         *)
(* session.  A query leaves its result in ret.                             *)
(*                                                                         *)
(* Numbers that the code keeps as floats are kept exact here: a percentage *)
(* s/t*100 is compared by cross-multiplication (100*s >= k*t) and a value  *)
(* rounded to one decimal is an integer number of tenths.  Both agree with *)
(* CPython's float arithmetic for every total below 80 and for total 100   *)
(* (checked by enumeration); the first totals where round(x, 1) on the     *)
(* float differs from the exact round-half-even are the multiples of 80.   *)
(***************************************************************************)
EXTENDS Integers, Sequences, FiniteSets, TLC

VARIABLES
    df,             \* the dataset of the current tick (a sequence of rows)
    now,            \* the clock read by datetime.now(); a call that reads it
                    \* finds it later than the call before did
    max_snapshots,  \* HistoricalTracker.max_snapshots
    snapshots,      \* HistoricalTracker.snapshots
    inserted,       \* history: every snapshot ever appended, in call order
    alerts,         \* AlertSystem.alerts
    alertDf,        \* history: the dataset of the last analyze_and_alert call
    prevAlerts,     \* history: AlertSystem.alerts before that call
    analyses,       \* history: number of analyze_and_alert calls so far
    alert_summary,  \* the value returned by get_alert_summary, if called
    health,         \* the value returned by analyze_overall_health, if called
    ret             \* the last query call: its name, arguments and returned value

vars == <<df, now, max_snapshots, snapshots, inserted, alerts, alertDf,
          prevAlerts, analyses, alert_summary, health, ret>>

----------------------------------------------------------------------------
(* Bounds of the model *)

MaxCap == 2        \* max_snapshots ranges over 0..MaxCap
MaxAdds == 4       \* add_snapshot calls per session
MaxAnalyses == 2   \* analyze_and_alert calls per session
MaxRun == 4        \* longest run of equal rows in a generated dataset
MaxGeoRun == 5     \* longest run of rows at one point in a spatial dataset
MaxFinderRows == 3 \* longest dataset searched for the nearest carparks
MaxNearest == 2    \* n of find_nearest ranges over 0..MaxNearest
MaxSearchRows == 2 \* longest dataset searched by name and filters
MaxSimRun == 6     \* longest run of equal rows in a simulated dataset
MaxScenarios == 2  \* longest list of scenarios compared
MaxRawRows == 2    \* longest raw feed converted by to_dataframe
MaxRows == 3       \* longest dataset of the exhaustive family
MaxTopN == 2       \* top_n ranges over 0..MaxTopN

----------------------------------------------------------------------------
(* Generic helpers *)

Min(a, b) == IF a <= b THEN a ELSE b

Max(a, b) == IF a >= b THEN a ELSE b

Range(s) == {s[i] : i \in DOMAIN s}

\* pandas boolean-mask selection df[mask]: the rows that satisfy P, in order
SelectRows(s, P(_)) == SelectSeq(s, P)

RECURSIVE SumLots(_)
RECURSIVE SumCoordinate(_, _)
\* df["AvailableLots"].sum()
SumLots(s) == IF s = <<>> THEN 0 ELSE s[1].AvailableLots + SumLots(Tail(s))

\* list.sort(key=...) and DataFrame.sort_values: a stable ascending sort
StableSortBy(s, key(_)) ==
    LET n == Len(s)
        rank(i) == 1 + Cardinality({j \in 1..n :
                        \/ key(s[j]) < key(s[i])
                        \/ (key(s[j]) = key(s[i]) /\ j < i)})
    IN  [p \in 1..n |-> s[CHOOSE i \in 1..n : rank(i) = p]]

\* s[:n] for n >= 0
Head_n(s, n) == SubSeq(s, 1, Min(n, Len(s)))

\* Python s[start:] for any integer start (negative counts from the end)
PySliceFrom(s, start) ==
    LET n == Len(s)
        lo == IF start < 0 THEN Max(n + start, 0) ELSE Min(start, n)
    IN  SubSeq(s, lo + 1, n)

\* round(x, 1) of the float 100*num/den, as a number of tenths
\* (round-half-even on the exact quotient); den > 0
Round1Pct(num, den) ==
    LET q == (1000 * num) \div den
        r == (1000 * num) % den
    IN  IF 2 * r > den \/ (2 * r = den /\ q % 2 = 1) THEN q + 1 ELSE q

\* round(x, 2) of the float num/den*100, as a number of hundredths
\* (round-half-even on the exact quotient, symmetric in the sign); den > 0.
\* Agrees with CPython for every den below 400 but 160 and 320.
Round2Pct(num, den) ==
    LET a == IF num < 0 THEN 0 - num ELSE num
        q == (10000 * a) \div den
        r == (10000 * a) % den
        m == IF 2 * r > den \/ (2 * r = den /\ q % 2 = 1) THEN q + 1 ELSE q
    IN  IF num < 0 THEN 0 - m ELSE m

\* no query has returned since the state last changed
NoCall == [op |-> "none"]

\* the record of a query call
Call(op, args, value) == [op |-> op, args |-> args, value |-> value]

----------------------------------------------------------------------------
(* The dataset: data_fetcher.py *)

Agencies == {"HDB", "LTA", "URA"}

\* _get_availability_status
get_availability_status(lots) ==
    IF lots > 50 THEN "Available"
    ELSE IF lots > 10 THEN "Moderate"
    ELSE "Limited"

\* One row of the DataFrame built by to_dataframe
\* (Development, the carpark's name, is one distinct name per feed position)
Row(id, agency, lots) ==
    [CarParkID |-> id, Development |-> id, Agency |-> agency,
     AvailableLots |-> lots, Status |-> get_availability_status(lots)]

\* A row with the columns the searches and the spatial operations read.  A
\* coordinate is <<>> when _parse_latitude/_parse_longitude gave None and
\* <<m>> for m thousandths of a degree.
FullRow(id, name, agency, lots, lot_type, lat, lon) ==
    [CarParkID |-> id, Development |-> name, Agency |-> agency,
     AvailableLots |-> lots, Status |-> get_availability_status(lots),
     LotType |-> lot_type, Latitude |-> lat, Longitude |-> lon]

\* df.dropna(subset=["Latitude", "Longitude"])
dropna_coordinates(d) ==
    SelectRows(d, LAMBDA r : r.Latitude # <<>> /\ r.Longitude # <<>>)

\* to_dataframe over raw <<agency, lots>> pairs; the row's identifier is its
\* position in the feed
to_dataframe(raw) ==
    [i \in 1..Len(raw) |-> Row(i, raw[i][1], raw[i][2])]

\* pd.to_numeric(raw, errors="coerce").fillna(0).astype(int) on one raw
\* AvailableLots value: a whole number or a string that spells one is kept,
\* sign included; None and a string that spells no number become NaN, then 0
coerce_lots(raw) ==
    CASE raw.kind = "number" -> raw.value
      [] raw.kind = "numeral" -> raw.value
      [] raw.kind = "missing" -> 0
      [] raw.kind = "text" -> 0

\* to_dataframe over raw records <<agency, raw AvailableLots>>
raw_dataframe(data) ==
    to_dataframe([i \in DOMAIN data |-> <<data[i][1], coerce_lots(data[i][2])>>])

\* df["Agency"].unique(): the agencies in order of first appearance
unique_agencies(d) ==
    LET first == SelectSeq([i \in 1..Len(d) |-> i],
                     LAMBDA i : \A j \in 1..(i - 1) : d[j].Agency # d[i].Agency)
    IN  [k \in 1..Len(first) |-> d[first[k]].Agency]

\* df[df["Agency"] == agency]
agency_rows(d, agency) == SelectRows(d, LAMBDA r : r.Agency = agency)

\* len(df[df["AvailableLots"] <= limit])
count_at_most(d, limit) == Len(SelectRows(d, LAMBDA r : r.AvailableLots <= limit))

----------------------------------------------------------------------------
(* HistoricalTracker: features.py *)

\* the [["Development", "Agency", "AvailableLots"]] projection
project_row(r) ==
    [Development |-> r.Development, Agency |-> r.Agency,
     AvailableLots |-> r.AvailableLots]

\* df.nlargest(n, "AvailableLots"): descending, ties in dataset order
nlargest(d, n) == Head_n(StableSortBy(d, LAMBDA r : 0 - r.AvailableLots), n)

\* df.nsmallest(n, "AvailableLots"): ascending, ties in dataset order
nsmallest(d, n) == Head_n(StableSortBy(d, LAMBDA r : r.AvailableLots), n)

\* (a variant whose stressed_count leaves out the carparks with exactly 10 lots)
make_snapshot_below_10(d, t) ==
    [timestamp |-> t,
     total_carparks |-> Len(d),
     total_available |-> SumLots(d),
     by_agency |-> [a \in Range(unique_agencies(d)) |->
                      [available |-> SumLots(agency_rows(d, a)),
                       carparks |-> Len(agency_rows(d, a)),
                       stressed |-> count_at_most(agency_rows(d, a), 10)]],
     by_status |-> [st \in {"Available", "Moderate", "Limited"} |->
                      Len(SelectRows(d, LAMBDA r : r.Status = st))],
     stressed_count |-> count_at_most(d, 9),
     top_available |-> [i \in 1..Min(5, Len(d)) |-> project_row(nlargest(d, 5)[i])],
     most_stressed |-> [i \in 1..Min(5, Len(d)) |-> project_row(nsmallest(d, 5)[i])]]

\* the snapshot dictionary built by add_snapshot
make_snapshot(d, t) ==
    [timestamp |-> t,
     total_carparks |-> Len(d),
     total_available |-> SumLots(d),
     by_agency |-> [a \in Range(unique_agencies(d)) |->
                      [available |-> SumLots(agency_rows(d, a)),
                       carparks |-> Len(agency_rows(d, a)),
                       stressed |-> count_at_most(agency_rows(d, a), 10)]],
     by_status |-> [st \in {"Available", "Moderate", "Limited"} |->
                      Len(SelectRows(d, LAMBDA r : r.Status = st))],
     stressed_count |-> count_at_most(d, 10),
     top_available |-> [i \in 1..Min(5, Len(d)) |-> project_row(nlargest(d, 5)[i])],
     most_stressed |-> [i \in 1..Min(5, Len(d)) |-> project_row(nsmallest(d, 5)[i])]]

\* self.snapshots after the append and the "keep only recent" step
keep_recent(buf, cap) ==
    IF Len(buf) > cap THEN PySliceFrom(buf, 0 - cap) ELSE buf

\* HistoricalTracker.add_snapshot(df, summary)
add_snapshot ==
    /\ Len(inserted) < MaxAdds
    /\ LET snapshot == make_snapshot(df, now)
       IN  /\ snapshots' = keep_recent(Append(snapshots, snapshot), max_snapshots)
           /\ inserted' = Append(inserted, snapshot)
    /\ now' = now + 1
    /\ ret' = NoCall
    /\ UNCHANGED <<df, max_snapshots, alerts, alertDf, prevAlerts,
                   analyses, alert_summary, health>>

\* (a variant that measures a lone snapshot against an empty car park)
availability_change_from_1(buf) ==
    IF Len(buf) < 1
    THEN [change |-> 0, percent |-> 0, direction |-> "stable"]
    ELSE LET first == IF Len(buf) >= 2 THEN buf[1].total_available ELSE 0
             last == buf[Len(buf)].total_available
             change == last - first
         IN  [change |-> change,
              percent |-> IF first > 0 THEN Round2Pct(change, first) ELSE 0,
              direction |-> IF change > 0 THEN "increasing"
                            ELSE IF change < 0 THEN "decreasing" ELSE "stable",
              time_span_minutes |-> Len(buf)]

\* (a variant that compares the last snapshot with the one before it)
availability_change_to_previous(buf) ==
    IF Len(buf) < 2
    THEN [change |-> 0, percent |-> 0, direction |-> "stable"]
    ELSE LET first == buf[Len(buf) - 1].total_available
             last == buf[Len(buf)].total_available
             change == last - first
         IN  [change |-> change,
              percent |-> IF first > 0 THEN Round2Pct(change, first) ELSE 0,
              direction |-> IF change > 0 THEN "increasing"
                            ELSE IF change < 0 THEN "decreasing" ELSE "stable",
              time_span_minutes |-> Len(buf)]

\* the dictionary returned by get_availability_change; percent in hundredths
availability_change(buf) ==
    IF Len(buf) < 2
    THEN [change |-> 0, percent |-> 0, direction |-> "stable"]
    ELSE LET first == buf[1].total_available
             last == buf[Len(buf)].total_available
             change == last - first
         IN  [change |-> change,
              percent |-> IF first > 0 THEN Round2Pct(change, first) ELSE 0,
              direction |-> IF change > 0 THEN "increasing"
                            ELSE IF change < 0 THEN "decreasing" ELSE "stable",
              time_span_minutes |-> Len(buf)]

\* HistoricalTracker.get_availability_change()
get_availability_change ==
    /\ ret' = Call("get_availability_change", <<>>, availability_change(snapshots))
    /\ UNCHANGED <<df, now, max_snapshots, snapshots, inserted, alerts, alertDf,
                   prevAlerts, analyses, alert_summary, health>>

----------------------------------------------------------------------------
(* AlertSystem: features.py *)

\* AlertSystem.__init__ thresholds
critical_stress_percent == 30
warning_stress_percent == 20
critical_availability == 5

NoAgency == "None"   \* Alert.agency = None
NoCarpark == 0       \* Alert.carpark_id = None (identifiers start at 1)

\* The Alert dataclass.  title is the kind of the title text; metric_value is
\* the exact fraction <<numerator, denominator>> of the float it holds.
Alert(level, title, t, agency, carpark_id, metric_value) ==
    [level |-> level, title |-> title, timestamp |-> t, agency |-> agency,
     carpark_id |-> carpark_id, metric_value |-> metric_value]

\* (a variant that relates the stressed carparks to the other carparks)
stress_percent_of_rest(stressed, total) ==
    IF total > 0 THEN <<100 * stressed, total - stressed>> ELSE <<0, 1>>

\* (stressed / total * 100) if total > 0 else 0, as an exact fraction
stress_percent(stressed, total) ==
    IF total > 0 THEN <<100 * stressed, total>> ELSE <<0, 1>>

\* stress_percent >= k
pct_at_least(pct, k) == pct[1] >= k * pct[2]

\* (a variant that keeps the alerts of the calls before)
reset_alerts_keep(old) == old

\* self.alerts = [] at the start of analyze_and_alert
reset_alerts(old) == <<>>

\* (a variant whose thresholds are exclusive)
check_system_health_above(al, d, t) ==
    LET total == Len(d)
        stressed == count_at_most(d, 10)
        pct == stress_percent(stressed, total)
    IN  IF pct[1] > critical_stress_percent * pct[2]
        THEN Append(al, Alert("critical", "System Under Critical Stress", t,
                              NoAgency, NoCarpark, pct))
        ELSE IF pct[1] > warning_stress_percent * pct[2]
        THEN Append(al, Alert("warning", "Elevated System Stress", t,
                              NoAgency, NoCarpark, pct))
        ELSE al

\* AlertSystem._check_system_health: the alert list after the check
check_system_health(al, d, t) ==
    LET total == Len(d)
        stressed == count_at_most(d, 10)
        pct == stress_percent(stressed, total)
    IN  IF pct_at_least(pct, critical_stress_percent)
        THEN Append(al, Alert("critical", "System Under Critical Stress", t,
                              NoAgency, NoCarpark, pct))
        ELSE IF pct_at_least(pct, warning_stress_percent)
        THEN Append(al, Alert("warning", "Elevated System Stress", t,
                              NoAgency, NoCarpark, pct))
        ELSE al

\* (a variant that measures the agency against the whole dataset)
check_one_agency_of_all(al, d, t, agency) ==
    LET agency_df == agency_rows(d, agency)
        total == Len(d)
        stressed == count_at_most(agency_df, 10)
        pct == stress_percent(stressed, total)
    IN  IF pct_at_least(pct, 40)
        THEN Append(al, Alert("critical", "Agency Critical", t,
                              agency, NoCarpark, pct))
        ELSE IF pct_at_least(pct, 25)
        THEN Append(al, Alert("warning", "Agency Warning", t,
                              agency, NoCarpark, pct))
        ELSE al

\* the body of the loop of _check_agency_health for one agency
check_one_agency(al, d, t, agency) ==
    LET agency_df == agency_rows(d, agency)
        total == Len(agency_df)
        stressed == count_at_most(agency_df, 10)
        pct == stress_percent(stressed, total)
    IN  IF pct_at_least(pct, 40)
        THEN Append(al, Alert("critical", "Agency Critical", t,
                              agency, NoCarpark, pct))
        ELSE IF pct_at_least(pct, 25)
        THEN Append(al, Alert("warning", "Agency Warning", t,
                              agency, NoCarpark, pct))
        ELSE al

RECURSIVE check_agencies(_, _, _, _)
\* the loop of _check_agency_health over the agencies still to visit
check_agencies(al, d, t, todo) ==
    IF todo = <<>> THEN al
    ELSE check_agencies(check_one_agency(al, d, t, Head(todo)), d, t, Tail(todo))

\* AlertSystem._check_agency_health
check_agency_health(al, d, t) == check_agencies(al, d, t, unique_agencies(d))

\* (a variant that lists the full carparks next to the summary as well)
check_critical_carparks_and_full(al, d, t) ==
    LET critical_carparks ==
            SelectRows(d, LAMBDA r : r.AvailableLots <= critical_availability)
        full == SelectRows(critical_carparks, LAMBDA r : r.AvailableLots = 0)
        listed == [i \in 1..Len(full) |->
                      Alert("critical", "FULL", t, full[i].Agency,
                            full[i].CarParkID, <<0, 1>>)]
    IN  IF Len(critical_carparks) > 10
        THEN Append(al, Alert("warning", "Multiple Carparks Near Capacity", t,
                              NoAgency, NoCarpark, <<Len(critical_carparks), 1>>))
             \o listed
        ELSE al \o listed

\* (a variant that summarises from 10 carparks on)
check_critical_carparks_from_10(al, d, t) ==
    LET critical_carparks ==
            SelectRows(d, LAMBDA r : r.AvailableLots <= critical_availability)
        full == SelectRows(critical_carparks, LAMBDA r : r.AvailableLots = 0)
    IN  IF Len(critical_carparks) >= 10
        THEN Append(al, Alert("warning", "Multiple Carparks Near Capacity", t,
                              NoAgency, NoCarpark, <<Len(critical_carparks), 1>>))
        ELSE al \o [i \in 1..Len(full) |->
                      Alert("critical", "FULL", t, full[i].Agency,
                            full[i].CarParkID, <<0, 1>>)]

\* AlertSystem._check_critical_carparks
check_critical_carparks(al, d, t) ==
    LET critical_carparks ==
            SelectRows(d, LAMBDA r : r.AvailableLots <= critical_availability)
        full == SelectRows(critical_carparks, LAMBDA r : r.AvailableLots = 0)
    IN  IF Len(critical_carparks) > 10
        THEN Append(al, Alert("warning", "Multiple Carparks Near Capacity", t,
                              NoAgency, NoCarpark, <<Len(critical_carparks), 1>>))
        ELSE al \o [i \in 1..Len(full) |->
                      Alert("critical", "FULL", t, full[i].Agency,
                            full[i].CarParkID, <<0, 1>>)]

\* severity_order in analyze_and_alert
severity_order(level) ==
    CASE level = "critical" -> 0
      [] level = "warning" -> 1
      [] level = "info" -> 2

\* (a variant whose sort is not stable: equal levels come out reversed)
sort_by_severity_unstable(al) ==
    StableSortBy([i \in 1..Len(al) |-> al[Len(al) + 1 - i]],
                 LAMBDA a : severity_order(a.level))

\* self.alerts.sort(key=lambda x: severity_order[x.level])
sort_by_severity(al) == StableSortBy(al, LAMBDA a : severity_order(a.level))

\* the list analyze_and_alert leaves in self.alerts, from the list it found
run_alert_rules(old, d, t) ==
    sort_by_severity(
        check_critical_carparks(
            check_agency_health(
                check_system_health(reset_alerts(old), d, t), d, t), d, t))

\* AlertSystem.analyze_and_alert(df, summary)
analyze_and_alert ==
    /\ analyses < MaxAnalyses
    /\ alerts' = run_alert_rules(alerts, df, now)
    /\ prevAlerts' = alerts
    /\ alertDf' = df
    /\ analyses' = analyses + 1
    /\ alert_summary' = <<>>
    /\ now' = now + 1
    /\ UNCHANGED <<df, max_snapshots, snapshots, inserted, health, ret>>

\* len([a for a in self.alerts if a.level == level])
count_level(al, level) == Len(SelectSeq(al, LAMBDA a : a.level = level))

\* the dictionary returned by AlertSystem.get_alert_summary
alert_summary_of(al) ==
    [total |-> Len(al),
     critical |-> count_level(al, "critical"),
     warning |-> count_level(al, "warning"),
     info |-> count_level(al, "info")]

\* AlertSystem.get_alert_summary()
get_alert_summary ==
    /\ alert_summary' = <<alert_summary_of(alerts)>>
    /\ UNCHANGED <<df, now, max_snapshots, snapshots, inserted, alerts,
                   alertDf, prevAlerts, analyses, health, ret>>

----------------------------------------------------------------------------
(* ParkingAnalyzer: analyzer.py *)

\* ParkingAnalyzer.__init__ thresholds
stress_threshold_low == 10
stress_threshold_moderate == 50

\* ParkingAnalyzer._get_health_status; score in tenths
get_health_status(score) ==
    IF score >= 800 THEN "Excellent"
    ELSE IF score >= 600 THEN "Good"
    ELSE IF score >= 400 THEN "Moderate"
    ELSE IF score >= 200 THEN "Stressed"
    ELSE "Critical"

\* len(df[df["AvailableLots"] <= stress_threshold_low])
stressed_count(d) == count_at_most(d, stress_threshold_low)

\* (a variant whose upper limit is exclusive)
moderate_count_below(d) ==
    Len(SelectRows(d, LAMBDA r : /\ r.AvailableLots > stress_threshold_low
                                 /\ r.AvailableLots < stress_threshold_moderate))

\* len(df[(lots > stress_threshold_low) & (lots <= stress_threshold_moderate)])
moderate_count(d) ==
    Len(SelectRows(d, LAMBDA r : /\ r.AvailableLots > stress_threshold_low
                                 /\ r.AvailableLots <= stress_threshold_moderate))

\* len(df[df["AvailableLots"] > stress_threshold_moderate])
healthy_count(d) ==
    Len(SelectRows(d, LAMBDA r : r.AvailableLots > stress_threshold_moderate))

\* (a variant that truncates to one decimal instead of rounding)
health_score_of_truncated(healthy, total_carparks) ==
    IF total_carparks > 0 THEN (1000 * healthy) \div total_carparks ELSE 0

\* round((healthy / total_carparks) * 100, 1) if total_carparks > 0 else 0
health_score_of(healthy, total_carparks) ==
    IF total_carparks > 0 THEN Round1Pct(healthy, total_carparks) ELSE 0

\* The dictionary returned by analyze_overall_health; health_score and
\* stress_percentage are in tenths.  average_availability and
\* median_availability, display values only, are left out.
overall_health(d) ==
    LET total_carparks == Len(d)
        stressed == stressed_count(d)
        moderate == moderate_count(d)
        healthy == healthy_count(d)
        health_score == health_score_of(healthy, total_carparks)
    IN  [health_score |-> health_score,
         total_carparks |-> total_carparks,
         total_available_lots |-> SumLots(d),
         stressed_carparks |-> stressed,
         moderate_carparks |-> moderate,
         healthy_carparks |-> healthy,
         stress_percentage |-> IF total_carparks > 0
                               THEN Round1Pct(stressed, total_carparks) ELSE 0,
         status |-> get_health_status(health_score)]

\* ParkingAnalyzer.analyze_overall_health(df)
analyze_overall_health ==
    /\ health' = <<overall_health(df)>>
    /\ UNCHANGED <<df, now, max_snapshots, snapshots, inserted, alerts,
                   alertDf, prevAlerts, analyses, alert_summary, ret>>

\* one entry of the dictionary built by analyze_by_agency, before ranking;
\* stress_percentage and health_score in tenths (mean and median left out)
agency_entry(agency_df) ==
    LET stressed == count_at_most(agency_df, stress_threshold_low)
        total == Len(agency_df)
        lots == {agency_df[i].AvailableLots : i \in DOMAIN agency_df}
    IN  [total_carparks |-> total,
         total_lots |-> SumLots(agency_df),
         min_availability |-> CHOOSE x \in lots : \A y \in lots : x <= y,
         max_availability |-> CHOOSE x \in lots : \A y \in lots : x >= y,
         stressed_carparks |-> stressed,
         stress_percentage |-> IF total > 0 THEN Round1Pct(stressed, total) ELSE 0,
         health_score |-> IF total > 0 THEN Round1Pct(total - stressed, total) ELSE 0]

\* The dictionary returned by analyze_by_agency: the entries, each with the
\* rank of its agency by health_score, best first (sorted() is stable)
by_agency(d) ==
    LET agencies == unique_agencies(d)
        entry(a) == agency_entry(agency_rows(d, a))
        ranked == StableSortBy(agencies, LAMBDA a : 0 - entry(a).health_score)
    IN  [a \in Range(agencies) |->
            [total_carparks |-> entry(a).total_carparks,
             total_lots |-> entry(a).total_lots,
             min_availability |-> entry(a).min_availability,
             max_availability |-> entry(a).max_availability,
             stressed_carparks |-> entry(a).stressed_carparks,
             stress_percentage |-> entry(a).stress_percentage,
             health_score |-> entry(a).health_score,
             rank |-> CHOOSE i \in DOMAIN ranked : ranked[i] = a]]

\* ParkingAnalyzer.analyze_by_agency(df)
analyze_by_agency ==
    /\ ret' = Call("analyze_by_agency", <<>>, by_agency(df))
    /\ UNCHANGED <<df, now, max_snapshots, snapshots, inserted, alerts, alertDf,
                   prevAlerts, analyses, alert_summary, health>>

\* the columns identify_stress_points returns, of those a row carries here
stress_columns(r) ==
    [CarParkID |-> r.CarParkID, Development |-> r.Development,
     Agency |-> r.Agency, AvailableLots |-> r.AvailableLots]

\* (a variant that returns the rows as nlargest left them)
stress_points_unsorted(d, top_n) ==
    LET stressed_df == SelectRows(d, LAMBDA r : r.AvailableLots <= stress_threshold_low)
        capped == IF Len(stressed_df) > top_n THEN nlargest(stressed_df, top_n)
                  ELSE stressed_df
    IN  [i \in DOMAIN capped |-> stress_columns(capped[i])]

\* (a variant that keeps the emptiest carparks when it truncates)
stress_points_emptiest(d, top_n) ==
    LET stressed_df == SelectRows(d, LAMBDA r : r.AvailableLots <= stress_threshold_low)
        capped == IF Len(stressed_df) > top_n THEN nsmallest(stressed_df, top_n)
                  ELSE stressed_df
        sorted == StableSortBy(capped, LAMBDA r : r.AvailableLots)
    IN  [i \in DOMAIN sorted |-> stress_columns(sorted[i])]

\* The frame returned by identify_stress_points.  sort_values sorts short
\* columns by insertion, which keeps equal keys in order.
stress_points(d, top_n) ==
    LET stressed_df == SelectRows(d, LAMBDA r : r.AvailableLots <= stress_threshold_low)
        capped == IF Len(stressed_df) > top_n THEN nlargest(stressed_df, top_n)
                  ELSE stressed_df
        sorted == StableSortBy(capped, LAMBDA r : r.AvailableLots)
    IN  [i \in DOMAIN sorted |-> stress_columns(sorted[i])]

\* ParkingAnalyzer.identify_stress_points(df, top_n)
identify_stress_points ==
    /\ \E top_n \in 0..MaxTopN :
         ret' = Call("identify_stress_points", [top_n |-> top_n],
                     stress_points(df, top_n))
    /\ UNCHANGED <<df, now, max_snapshots, snapshots, inserted, alerts, alertDf,
                   prevAlerts, analyses, alert_summary, health>>

\* grid_size = 0.01 degrees, in thousandths of a degree
grid_size == 10

\* (coordinate / grid_size).astype(int): the quotient, truncated toward zero
grid_index(m) ==
    IF m >= 0 THEN m \div grid_size ELSE 0 - ((0 - m) \div grid_size)

\* the grid_cell of a row with both coordinates
grid_cell(r) == <<grid_index(r.Latitude[1]), grid_index(r.Longitude[1])>>

\* df_valid["grid_cell"].unique(): the cells in order of first appearance
unique_cells(d) ==
    LET first == SelectSeq([i \in 1..Len(d) |-> i],
                     LAMBDA i : \A j \in 1..(i - 1) : grid_cell(d[j]) # grid_cell(d[i]))
    IN  [k \in 1..Len(first) |-> grid_cell(d[first[k]])]

\* the sum of a coordinate column over rows that have it
SumCoordinate(s, lat) ==
    IF s = <<>> THEN 0
    ELSE (IF lat THEN s[1].Latitude[1] ELSE s[1].Longitude[1])
         + SumCoordinate(Tail(s), lat)

\* the dictionary appended for one cell; a mean is the pair <<sum, count>>
cluster_of(cell_df, stressed_in_cell) ==
    [center_lat |-> <<SumCoordinate(cell_df, TRUE), Len(cell_df)>>,
     center_lon |-> <<SumCoordinate(cell_df, FALSE), Len(cell_df)>>,
     total_carparks |-> Len(cell_df),
     stressed_carparks |-> stressed_in_cell,
     total_lots |-> SumLots(cell_df),
     carpark_names |-> [i \in 1..Min(5, Len(cell_df)) |-> cell_df[i].Development],
     severity |-> IF stressed_in_cell >= 5 THEN "High" ELSE "Moderate"]

\* (a variant that needs more than 3 stressed carparks for a cluster)
spatial_clusters_above_3(d) ==
    LET df_valid == dropna_coordinates(d)
        cells == unique_cells(df_valid)
        cell_df(c) == SelectRows(df_valid, LAMBDA r : grid_cell(r) = c)
        stressed(c) == count_at_most(cell_df(c), stress_threshold_low)
        hot == SelectSeq(cells, LAMBDA c : stressed(c) > 3)
        clusters == [k \in DOMAIN hot |-> cluster_of(cell_df(hot[k]), stressed(hot[k]))]
    IN  StableSortBy(clusters, LAMBDA x : 0 - x.stressed_carparks)

\* The list returned by detect_spatial_clusters with the default grid_size
spatial_clusters(d) ==
    LET df_valid == dropna_coordinates(d)
        cells == unique_cells(df_valid)
        cell_df(c) == SelectRows(df_valid, LAMBDA r : grid_cell(r) = c)
        stressed(c) == count_at_most(cell_df(c), stress_threshold_low)
        hot == SelectSeq(cells, LAMBDA c : stressed(c) >= 3)
        clusters == [k \in DOMAIN hot |-> cluster_of(cell_df(hot[k]), stressed(hot[k]))]
    IN  StableSortBy(clusters, LAMBDA x : 0 - x.stressed_carparks)

\* ParkingAnalyzer.detect_spatial_clusters(df)
detect_spatial_clusters ==
    /\ ret' = Call("detect_spatial_clusters", <<>>, spatial_clusters(df))
    /\ UNCHANGED <<df, now, max_snapshots, snapshots, inserted, alerts, alertDf,
                   prevAlerts, analyses, alert_summary, health>>

----------------------------------------------------------------------------
(* NearestParkingFinder: features.py *)

\* The value of haversine_distance (R = 6371) in whole metres, for the query
\* points and the carpark points of the finder's datasets, as
\* <<lat1, lon1, lat2, lon2, metres>> with coordinates in thousandths of a
\* degree.  Between different points the distances differ by more than the
\* floating-point error, so metres order rows as the floats do.
HaversineTable ==
    {<<1290, 103790, 1300, 103800, 1572>>,  \* 1.5723329210332522 km
     <<1290, 103790, 1310, 103800, 2486>>,  \* 2.4862661630188105 km
     <<1290, 103790, 1300, 103810, 2485>>,  \* 2.4858861085750825 km
     <<1310, 103800, 1300, 103800, 1111>>,  \* 1.1119492664455846 km
     <<1310, 103800, 1310, 103800, 0>>,     \* 0.0 km
     <<1310, 103800, 1300, 103810, 1572>>}  \* 1.5723298080655408 km

haversine_distance(lat1, lon1, lat2, lon2) ==
    (CHOOSE t \in HaversineTable :
        t[1] = lat1 /\ t[2] = lon1 /\ t[3] = lat2 /\ t[4] = lon2)[5]

\* The points between which haversine_distance is evaluated exactly, as
\* <<latitude, longitude>> in thousandths of a degree: five around the
\* carparks, the origin, two far cities, the pole and a point beyond the
\* antimeridian
DistancePoints ==
    {<<1290, 103790>>, <<1300, 103800>>, <<1300, 103810>>, <<1310, 103800>>,
     <<1305, 103805>>, <<0, 0>>, <<-33868, 151209>>, <<51507, -128>>,
     <<90000, 0>>, <<1300, -176200>>}

\* The double haversine_distance returns for each ordered pair of these
\* points, each pair evaluated on its own with the function's statements, as
\* <<lat1, lon1, lat2, lon2, metres, hi, lo, exponent>>: the double is
\* (hi * 2^27 + lo) * 2^(exponent - 53) kilometres, metres its whole metres
HaversineDoubles ==
    {<<1290, 103790, 1290, 103790, 0, 0, 0, 0>>,
     <<1290, 103790, 1300, 103800, 1572, 52758738, 10760454, 1>>,
     <<1290, 103790, 1300, 103810, 2485, 41706248, 26167573, 2>>,
     <<1290, 103790, 1310, 103800, 2486, 41712624, 60459422, 2>>,
     <<1290, 103790, 1305, 103805, 2358, 39569034, 9081, 2>>,
     <<1290, 103790, 0, 0, 11540525, 47269990, 124317230, 14>>,
     <<1290, 103790, -33868, 151209, 6303896, 51641523, 63038301, 13>>,
     <<1290, 103790, 51507, -128, 10851323, 44447020, 118548605, 14>>,
     <<1290, 103790, 90000, 0, 9864101, 40403361, 74765790, 14>>,
     <<1290, 103790, 1300, -176200, 8893975, 36429721, 111361302, 14>>,
     <<1300, 103800, 1290, 103790, 1572, 52758738, 10760454, 1>>,
     <<1300, 103800, 1300, 103800, 0, 0, 0, 0>>,
     <<1300, 103800, 1300, 103810, 1111, 37301222, 79139043, 1>>,
     <<1300, 103800, 1310, 103800, 1111, 37310826, 6495903, 1>>,
     <<1300, 103800, 1305, 103805, 786, 52758659, 112779874, 0>>,
     <<1300, 103800, 0, 0, 11541630, 47274518, 129403495, 14>>,
     <<1300, 103800, -33868, 151209, 6303841, 51641072, 114936436, 13>>,
     <<1300, 103800, 51507, -128, 10851119, 44446185, 18186139, 14>>,
     <<1300, 103800, 90000, 0, 9862989, 40398807, 1725126, 14>>,
     <<1300, 103800, 1300, -176200, 8892842, 36425082, 68242178, 14>>,
     <<1300, 103810, 1290, 103790, 2485, 41706248, 26167573, 2>>,
     <<1300, 103810, 1300, 103800, 1111, 37301222, 79139043, 1>>,
     <<1300, 103810, 1300, 103810, 0, 0, 0, 0>>,
     <<1300, 103810, 1310, 103800, 1572, 52758633, 84061669, 1>>,
     <<1300, 103810, 1305, 103805, 786, 52758659, 112770867, 0>>,
     <<1300, 103810, 0, 0, 11542742, 47279072, 35605173, 14>>,
     <<1300, 103810, -33868, 151209, 6303028, 51634412, 7752106, 13>>,
     <<1300, 103810, 51507, -128, 10851796, 44448960, 22223591, 14>>,
     <<1300, 103810, 90000, 0, 9862989, 40398807, 1725126, 14>>,
     <<1300, 103810, 1300, -176200, 8891730, 36420529, 129017779, 14>>,
     <<1310, 103800, 1290, 103790, 2486, 41712624, 60459422, 2>>,
     <<1310, 103800, 1300, 103800, 1111, 37310826, 6495903, 1>>,
     <<1310, 103800, 1300, 103810, 1572, 52758633, 84061669, 1>>,
     <<1310, 103800, 1310, 103800, 0, 0, 0, 0>>,
     <<1310, 103800, 1305, 103805, 786, 52758607, 55368205, 0>>,
     <<1310, 103800, 0, 0, 11541624, 47274493, 65301441, 14>>,
     <<1310, 103800, -33868, 151209, 6304600, 51647284, 88285033, 13>>,
     <<1310, 103800, 51507, -128, 10850237, 44442574, 23544978, 14>>,
     <<1310, 103800, 90000, 0, 9861878, 40394252, 62902189, 14>>,
     <<1310, 103800, 1300, -176200, 8892821, 36424995, 119431187, 14>>,
     <<1305, 103805, 1290, 103790, 2358, 39569034, 9081, 2>>,
     <<1305, 103805, 1300, 103800, 786, 52758659, 112779874, 0>>,
     <<1305, 103805, 1300, 103810, 786, 52758659, 112770867, 0>>,
     <<1305, 103805, 1310, 103800, 786, 52758607, 55368205, 0>>,
     <<1305, 103805, 1305, 103805, 0, 0, 0, 0>>,
     <<1305, 103805, 0, 0, 11542183, 47276782, 120195852, 14>>,
     <<1305, 103805, -33868, 151209, 6303814, 51640848, 48449875, 13>>,
     <<1305, 103805, 51507, -128, 10851017, 44445767, 22814417, 14>>,
     <<1305, 103805, 90000, 0, 9862434, 40396529, 99422521, 14>>,
     <<1305, 103805, 1300, -176200, 8892276, 36422762, 122389193, 14>>,
     <<0, 0, 1290, 103790, 11540525, 47269990, 124317230, 14>>,
     <<0, 0, 1300, 103800, 11541630, 47274518, 129403495, 14>>,
     <<0, 0, 1300, 103810, 11542742, 47279072, 35605173, 14>>,
     <<0, 0, 1310, 103800, 11541624, 47274493, 65301441, 14>>,
     <<0, 0, 1305, 103805, 11542183, 47276782, 120195852, 14>>,
     <<0, 0, 0, 0, 0, 0, 0, 0>>,
     <<0, 0, -33868, 151209, 15199494, 62257127, 101534886, 14>>,
     <<0, 0, 51507, -128, 5727329, 46918285, 19468278, 13>>,
     <<0, 0, 90000, 0, 10007543, 40990897, 101770609, 14>>,
     <<0, 0, 1300, -176200, 19568538, 40076366, 15509516, 15>>,
     <<-33868, 151209, 1290, 103790, 6303896, 51641523, 63038301, 13>>,
     <<-33868, 151209, 1300, 103800, 6303841, 51641072, 114936436, 13>>,
     <<-33868, 151209, 1300, 103810, 6303028, 51634412, 7752106, 13>>,
     <<-33868, 151209, 1310, 103800, 6304600, 51647284, 88285033, 13>>,
     <<-33868, 151209, 1305, 103805, 6303814, 51640848, 48449875, 13>>,
     <<-33868, 151209, 0, 0, 15199494, 62257127, 101534886, 14>>,
     <<-33868, 151209, -33868, 151209, 0, 0, 0, 0>>,
     <<-33868, 151209, 51507, -128, 16993881, 34803470, 9622004, 15>>,
     <<-33868, 151209, 90000, 0, 13773493, 56416228, 5247805, 14>>,
     <<-33868, 151209, 1300, -176200, 5184597, 42472222, 101459635, 13>>,
     <<51507, -128, 1290, 103790, 10851323, 44447020, 118548605, 14>>,
     <<51507, -128, 1300, 103800, 10851119, 44446185, 18186139, 14>>,
     <<51507, -128, 1300, 103810, 10851796, 44448960, 22223591, 14>>,
     <<51507, -128, 1310, 103800, 10850237, 44442574, 23544978, 14>>,
     <<51507, -128, 1305, 103805, 10851017, 44445767, 22814417, 14>>,
     <<51507, -128, 0, 0, 5727329, 46918285, 19468278, 13>>,
     <<51507, -128, -33868, 151209, 16993881, 34803470, 9622004, 15>>,
     <<51507, -128, 51507, -128, 0, 0, 0, 0>>,
     <<51507, -128, 90000, 0, 4280226, 35063613, 126487749, 13>>,
     <<51507, -128, 1300, -176200, 14131533, 57882762, 117102610, 14>>,
     <<90000, 0, 1290, 103790, 9864101, 40403361, 74765790, 14>>,
     <<90000, 0, 1300, 103800, 9862989, 40398807, 1725126, 14>>,
     <<90000, 0, 1300, 103810, 9862989, 40398807, 1725126, 14>>,
     <<90000, 0, 1310, 103800, 9861878, 40394252, 62902189, 14>>,
     <<90000, 0, 1305, 103805, 9862434, 40396529, 99422521, 14>>,
     <<90000, 0, 0, 0, 10007543, 40990897, 101770609, 14>>,
     <<90000, 0, -33868, 151209, 13773493, 56416228, 5247805, 14>>,
     <<90000, 0, 51507, -128, 4280226, 35063613, 126487749, 13>>,
     <<90000, 0, 90000, 0, 0, 0, 0, 0>>,
     <<90000, 0, 1300, -176200, 9862989, 40398807, 1725126, 14>>,
     <<1300, -176200, 1290, 103790, 8893975, 36429721, 111361302, 14>>,
     <<1300, -176200, 1300, 103800, 8892842, 36425082, 68242178, 14>>,
     <<1300, -176200, 1300, 103810, 8891730, 36420529, 129017779, 14>>,
     <<1300, -176200, 1310, 103800, 8892821, 36424995, 119431187, 14>>,
     <<1300, -176200, 1305, 103805, 8892276, 36422762, 122389193, 14>>,
     <<1300, -176200, 0, 0, 19568538, 40076366, 15509516, 15>>,
     <<1300, -176200, -33868, 151209, 5184597, 42472222, 101459635, 13>>,
     <<1300, -176200, 51507, -128, 14131533, 57882762, 117102610, 14>>,
     <<1300, -176200, 90000, 0, 9862989, 40398807, 1725126, 14>>,
     <<1300, -176200, 1300, -176200, 0, 0, 0, 0>>}

\* (a variant whose result depends on the direction of travel)
haversine_double_directed(lat1, lon1, lat2, lon2) ==
    LET t == CHOOSE t \in HaversineDoubles :
                t[1] = lat1 /\ t[2] = lon1 /\ t[3] = lat2 /\ t[4] = lon2
    IN  [metres |-> t[5],
         mantissa |-> IF lat1 > lat2 THEN <<t[6], t[7]>> ELSE <<t[6], t[7] + 1>>,
         exponent |-> t[8]]

\* haversine_distance(lat1, lon1, lat2, lon2) as the exact double
haversine_double(lat1, lon1, lat2, lon2) ==
    LET t == CHOOSE t \in HaversineDoubles :
                t[1] = lat1 /\ t[2] = lon1 /\ t[3] = lat2 /\ t[4] = lon2
    IN  [metres |-> t[5], mantissa |-> <<t[6], t[7]>>, exponent |-> t[8]]

\* one evaluation of NearestParkingFinder.haversine_distance
haversine_distance_call ==
    /\ \E a \in DistancePoints, b \in DistancePoints :
         ret' = Call("haversine_distance",
                     [lat1 |-> a[1], lon1 |-> a[2], lat2 |-> b[1], lon2 |-> b[2]],
                     haversine_double(a[1], a[2], b[1], b[2]))
    /\ UNCHANGED <<df, now, max_snapshots, snapshots, inserted, alerts, alertDf,
                   prevAlerts, analyses, alert_summary, health>>

\* Distance_km.round(2), in hundredths of a kilometre
round_km(metres) == (metres + 5) \div 10

\* the row find_nearest returns for the row at index i, d metres away
nearest_row(i, r, d) ==
    [index |-> i, Development |-> r.Development, Agency |-> r.Agency,
     AvailableLots |-> r.AvailableLots, Status |-> r.Status,
     Distance_km |-> round_km(d), Latitude |-> r.Latitude,
     Longitude |-> r.Longitude, LotType |-> r.LotType]

\* the rows find_nearest ranks: index and row after dropna and the filters
nearest_candidates(d, min_availability, agency) ==
    SelectSeq([i \in DOMAIN d |-> [index |-> i, row |-> d[i]]],
              LAMBDA c : /\ c.row.Latitude # <<>> /\ c.row.Longitude # <<>>
                         /\ c.row.AvailableLots >= min_availability
                         /\ (agency # NoAgency /\ agency # "All"
                               => c.row.Agency = agency))

\* (a variant that keeps the n farthest candidates)
nearest_farthest(d, lat, lon, n, min_availability, agency) ==
    LET cand == nearest_candidates(d, min_availability, agency)
        dist(c) == haversine_distance(lat, lon, c.row.Latitude[1], c.row.Longitude[1])
        result == Head_n(StableSortBy(cand, LAMBDA c : 0 - dist(c)), n)
    IN  [k \in DOMAIN result |->
            nearest_row(result[k].index, result[k].row, dist(result[k]))]

\* The frame returned by NearestParkingFinder(d).find_nearest(lat, lon, n,
\* min_availability, agency); nsmallest keeps the first of equal distances
nearest(d, lat, lon, n, min_availability, agency) ==
    LET cand == nearest_candidates(d, min_availability, agency)
        dist(c) == haversine_distance(lat, lon, c.row.Latitude[1], c.row.Longitude[1])
        result == Head_n(StableSortBy(cand, dist), n)
    IN  [k \in DOMAIN result |->
            nearest_row(result[k].index, result[k].row, dist(result[k]))]

\* the query points of the searches
QueryPoints == {<<1290, 103790>>, <<1310, 103800>>}

\* (a variant whose constructor drops the rows without coordinates from the
\* dataset it is given)
find_nearest_in_place ==
    /\ ret = NoCall
    /\ \E q \in QueryPoints, n \in 0..MaxNearest, min_availability \in {0, 1},
          agency \in {NoAgency, "All", "URA"} :
         ret' = Call("find_nearest",
                     [lat |-> q[1], lon |-> q[2], n |-> n,
                      min_availability |-> min_availability, agency |-> agency],
                     nearest(df, q[1], q[2], n, min_availability, agency))
    /\ df' = dropna_coordinates(df)
    /\ UNCHANGED <<now, max_snapshots, snapshots, inserted, alerts, alertDf,
                   prevAlerts, analyses, alert_summary, health>>

\* One search of the "Find Parking" page: NearestParkingFinder(df) and one
\* find_nearest call on it
find_nearest ==
    /\ ret = NoCall
    /\ \E q \in QueryPoints, n \in 0..MaxNearest, min_availability \in {0, 1},
          agency \in {NoAgency, "All", "URA"} :
         ret' = Call("find_nearest",
                     [lat |-> q[1], lon |-> q[2], n |-> n,
                      min_availability |-> min_availability, agency |-> agency],
                     nearest(df, q[1], q[2], n, min_availability, agency))
    /\ UNCHANGED <<df, now, max_snapshots, snapshots, inserted, alerts, alertDf,
                   prevAlerts, analyses, alert_summary, health>>

----------------------------------------------------------------------------
(* CarparkSearch: features.py *)

\* str.lower() on a string held as a sequence of characters
lower(str) ==
    [k \in DOMAIN str |-> CASE str[k] = "A" -> "a"
                            [] str[k] = "B" -> "b"
                            [] OTHER -> str[k]]

\* Series.str.contains(pat): a search for the regular expression pat (regex
\* is True by default), for patterns of letters and ".", which stands for
\* any one character
str_contains(text, pat) ==
    \E offset \in 0..(Len(text) - Len(pat)) :
        \A k \in DOMAIN pat : pat[k] = "." \/ pat[k] = text[offset + k]

\* The frame returned by advanced_filter.  An omitted or empty query is <<>>,
\* an omitted or empty list is {}.
filtered(d, query, agencies, statuses, min_lots, lot_types) ==
    SelectRows(d, LAMBDA r :
        /\ query # <<>> => str_contains(lower(r.Development), lower(query))
        /\ (agencies # {} /\ "All" \notin agencies) => r.Agency \in agencies
        /\ statuses # {} => r.Status \in statuses
        /\ r.AvailableLots >= min_lots
        /\ lot_types # {} => r.LotType \in lot_types)

\* One search of the "Search Carparks" tab: CarparkSearch(df) and one
\* advanced_filter call on it
advanced_filter ==
    /\ ret = NoCall
    /\ \E query \in {<<>>, <<"a">>, <<"A", "B">>, <<".">>},
          agencies \in {{}, {"HDB"}, {"HDB", "URA"}, {"All", "HDB"}},
          statuses \in {{}, {"Limited"}},
          min_lots \in {0, 6},
          lot_types \in {{}, {"C"}} :
         ret' = Call("advanced_filter",
                     [query |-> query, agencies |-> agencies, statuses |-> statuses,
                      min_lots |-> min_lots, lot_types |-> lot_types],
                     filtered(df, query, agencies, statuses, min_lots, lot_types))
    /\ UNCHANGED <<df, now, max_snapshots, snapshots, inserted, alerts, alertDf,
                   prevAlerts, analyses, alert_summary, health>>

----------------------------------------------------------------------------
(* ParkingPolicySimulator: policy_simulator.py *)

\* int(num / den) for den > 0: the quotient truncated toward zero
Trunc(num, den) ==
    IF num >= 0 THEN num \div den ELSE 0 - ((0 - num) \div den)

\* _estimate_capacity: int(sum / (1 - 0.7)).  The divisor is the double
\* 0.30000000000000004, so a sum that is a multiple of 3 lands just below
\* the whole quotient.
estimate_capacity(d) ==
    LET total == SumLots(d)
    IN  IF total > 0 /\ total % 3 = 0 THEN (10 * total) \div 3 - 1
        ELSE (10 * total) \div 3

\* _baseline_by_agency (avg_availability left out)
baseline_by_agency(d) ==
    [a \in Range(unique_agencies(d)) |->
        [carparks |-> Len(agency_rows(d, a)),
         available |-> SumLots(agency_rows(d, a)),
         stressed |-> count_at_most(agency_rows(d, a), 10)]]

\* create_baseline (name, timestamp and utilization_rate left out)
create_baseline(d) ==
    [total_carparks |-> Len(d),
     total_capacity_estimate |-> estimate_capacity(d),
     total_available |-> SumLots(d),
     stressed_carparks |-> count_at_most(d, 10),
     by_agency |-> baseline_by_agency(d)]

\* (a variant that counts the other agencies' lots only when there are none)
pricing_policy_without_others(d, price_change_percent, target_agency) ==
    LET baseline == create_baseline(d)
        target_df == IF target_agency # NoAgency THEN agency_rows(d, target_agency)
                     ELSE d
        other_df == IF target_agency # NoAgency
                    THEN SelectRows(d, LAMBDA r : r.Agency # target_agency)
                    ELSE <<>>
        magnitude == IF price_change_percent < 0 THEN 0 - price_change_percent
                     ELSE price_change_percent
        new_available_target ==
            Trunc(SumLots(target_df) * (1000 + 3 * price_change_percent), 1000)
        spillover_lots == Trunc(magnitude * SumLots(target_df) * 9, 20000)
        new_available_other ==
            IF other_df = <<>> THEN SumLots(other_df) - spillover_lots ELSE 0
        new_stressed ==
            Max(0, Trunc(baseline.stressed_carparks * (2000 - 3 * magnitude), 2000))
    IN  [scenario_name |-> <<"Pricing Policy", price_change_percent>>,
         policy_type |-> "pricing",
         parameters |->
            [price_change_percent |-> price_change_percent,
             target_agency |-> IF target_agency # NoAgency THEN target_agency
                               ELSE "All"],
         baseline |-> baseline,
         projected |->
            [total_available |-> new_available_target + new_available_other,
             availability_change |-> 3 * price_change_percent,
             stressed_carparks |-> new_stressed,
             stress_reduction |-> baseline.stressed_carparks - new_stressed,
             spillover_lots |-> spillover_lots]]

\* (a variant that does not floor the projected stressed count at 0)
pricing_policy_unfloored(d, price_change_percent, target_agency) ==
    LET baseline == create_baseline(d)
        target_df == IF target_agency # NoAgency THEN agency_rows(d, target_agency)
                     ELSE d
        other_df == IF target_agency # NoAgency
                    THEN SelectRows(d, LAMBDA r : r.Agency # target_agency)
                    ELSE <<>>
        magnitude == IF price_change_percent < 0 THEN 0 - price_change_percent
                     ELSE price_change_percent
        new_available_target ==
            Trunc(SumLots(target_df) * (1000 + 3 * price_change_percent), 1000)
        spillover_lots == Trunc(magnitude * SumLots(target_df) * 9, 20000)
        new_available_other ==
            IF other_df # <<>> THEN SumLots(other_df) - spillover_lots ELSE 0
        new_stressed ==
            Trunc(baseline.stressed_carparks * (2000 - 3 * magnitude), 2000)
    IN  [scenario_name |-> <<"Pricing Policy", price_change_percent>>,
         policy_type |-> "pricing",
         parameters |->
            [price_change_percent |-> price_change_percent,
             target_agency |-> IF target_agency # NoAgency THEN target_agency
                               ELSE "All"],
         baseline |-> baseline,
         projected |->
            [total_available |-> new_available_target + new_available_other,
             availability_change |-> 3 * price_change_percent,
             stressed_carparks |-> new_stressed,
             stress_reduction |-> baseline.stressed_carparks - new_stressed,
             spillover_lots |-> spillover_lots]]

\* (a variant whose stress effect follows the sign of the price change)
pricing_policy_signed(d, price_change_percent, target_agency) ==
    LET baseline == create_baseline(d)
        target_df == IF target_agency # NoAgency THEN agency_rows(d, target_agency)
                     ELSE d
        other_df == IF target_agency # NoAgency
                    THEN SelectRows(d, LAMBDA r : r.Agency # target_agency)
                    ELSE <<>>
        magnitude == IF price_change_percent < 0 THEN 0 - price_change_percent
                     ELSE price_change_percent
        new_available_target ==
            Trunc(SumLots(target_df) * (1000 + 3 * price_change_percent), 1000)
        spillover_lots == Trunc(magnitude * SumLots(target_df) * 9, 20000)
        new_available_other ==
            IF other_df # <<>> THEN SumLots(other_df) - spillover_lots ELSE 0
        new_stressed ==
            Max(0, Trunc(baseline.stressed_carparks
                           * (2000 - 3 * price_change_percent), 2000))
    IN  [scenario_name |-> <<"Pricing Policy", price_change_percent>>,
         policy_type |-> "pricing",
         parameters |->
            [price_change_percent |-> price_change_percent,
             target_agency |-> IF target_agency # NoAgency THEN target_agency
                               ELSE "All"],
         baseline |-> baseline,
         projected |->
            [total_available |-> new_available_target + new_available_other,
             availability_change |-> 3 * price_change_percent,
             stressed_carparks |-> new_stressed,
             stress_reduction |-> baseline.stressed_carparks - new_stressed,
             spillover_lots |-> spillover_lots]]

\* The dictionary returned by simulate_pricing_policy (methodology left out).
\* With price_elasticity = -0.3 and spillover_rate = 0.15 the availability
\* factor is 1 + 0.003 p, the spillover 0.00045 |p| of the target's lots and
\* the stress factor 1 - 0.0015 |p|; availability_change is in tenths of a
\* percent.  target_agency is NoAgency for None.
pricing_policy(d, price_change_percent, target_agency) ==
    LET baseline == create_baseline(d)
        target_df == IF target_agency # NoAgency THEN agency_rows(d, target_agency)
                     ELSE d
        other_df == IF target_agency # NoAgency
                    THEN SelectRows(d, LAMBDA r : r.Agency # target_agency)
                    ELSE <<>>
        magnitude == IF price_change_percent < 0 THEN 0 - price_change_percent
                     ELSE price_change_percent
        new_available_target ==
            Trunc(SumLots(target_df) * (1000 + 3 * price_change_percent), 1000)
        spillover_lots == Trunc(magnitude * SumLots(target_df) * 9, 20000)
        new_available_other ==
            IF other_df # <<>> THEN SumLots(other_df) - spillover_lots ELSE 0
        new_stressed ==
            Max(0, Trunc(baseline.stressed_carparks * (2000 - 3 * magnitude), 2000))
    IN  [scenario_name |-> <<"Pricing Policy", price_change_percent>>,
         policy_type |-> "pricing",
         parameters |->
            [price_change_percent |-> price_change_percent,
             target_agency |-> IF target_agency # NoAgency THEN target_agency
                               ELSE "All"],
         baseline |-> baseline,
         projected |->
            [total_available |-> new_available_target + new_available_other,
             availability_change |-> 3 * price_change_percent,
             stressed_carparks |-> new_stressed,
             stress_reduction |-> baseline.stressed_carparks - new_stressed,
             spillover_lots |-> spillover_lots]]

\* (a variant with the two caps of the stress effect exchanged)
capacity_change_caps_swapped(d, capacity_change_percent, target_agency) ==
    LET baseline == create_baseline(d)
        target_df == IF target_agency # NoAgency THEN agency_rows(d, target_agency)
                     ELSE d
        current_available == SumLots(target_df)
        magnitude == IF capacity_change_percent < 0 THEN 0 - capacity_change_percent
                     ELSE capacity_change_percent
        new_stressed ==
            IF capacity_change_percent > 0
            THEN Max(0, Trunc(baseline.stressed_carparks
                                * (100 - Min(50, capacity_change_percent)), 100))
            ELSE Trunc(baseline.stressed_carparks * (100 + Min(30, magnitude)), 100)
    IN  [scenario_name |-> <<"Capacity Change", capacity_change_percent>>,
         policy_type |-> "capacity",
         parameters |->
            [capacity_change_percent |-> capacity_change_percent,
             target_agency |-> IF target_agency # NoAgency THEN target_agency
                               ELSE "All"],
         baseline |-> baseline,
         projected |->
            [total_available |->
                Trunc(200 * baseline.total_available
                        + current_available * capacity_change_percent, 200),
             net_availability_change |->
                Trunc(current_available * capacity_change_percent, 200),
             induced_demand |->
                Trunc(current_available * capacity_change_percent, 200),
             stressed_carparks |-> new_stressed,
             stress_change |-> new_stressed - baseline.stressed_carparks]]

\* The dictionary returned by simulate_capacity_change (methodology left
\* out).  With capacity_elasticity = 0.5 the induced demand and the net
\* change are both half the capacity delta, current_available * p / 200.
capacity_change(d, capacity_change_percent, target_agency) ==
    LET baseline == create_baseline(d)
        target_df == IF target_agency # NoAgency THEN agency_rows(d, target_agency)
                     ELSE d
        current_available == SumLots(target_df)
        magnitude == IF capacity_change_percent < 0 THEN 0 - capacity_change_percent
                     ELSE capacity_change_percent
        new_stressed ==
            IF capacity_change_percent > 0
            THEN Max(0, Trunc(baseline.stressed_carparks
                                * (100 - Min(30, capacity_change_percent)), 100))
            ELSE Trunc(baseline.stressed_carparks * (100 + Min(50, magnitude)), 100)
    IN  [scenario_name |-> <<"Capacity Change", capacity_change_percent>>,
         policy_type |-> "capacity",
         parameters |->
            [capacity_change_percent |-> capacity_change_percent,
             target_agency |-> IF target_agency # NoAgency THEN target_agency
                               ELSE "All"],
         baseline |-> baseline,
         projected |->
            [total_available |->
                Trunc(200 * baseline.total_available
                        + current_available * capacity_change_percent, 200),
             net_availability_change |->
                Trunc(current_available * capacity_change_percent, 200),
             induced_demand |->
                Trunc(current_available * capacity_change_percent, 200),
             stressed_carparks |-> new_stressed,
             stress_change |-> new_stressed - baseline.stressed_carparks]]

\* the "mixed" result of simulate_ura_intervention: net_improvement is
\* 0.045 + 0.10 - 0.05 = 0.095 (9.5 percent, in tenths)
ura_mixed(d) ==
    LET ura_df == agency_rows(d, "URA")
        by == baseline_by_agency(d)
        ura_stressed == count_at_most(ura_df, 10)
        new_ura_stressed == Max(0, Trunc(ura_stressed * 6, 10))
    IN  [scenario_name |-> "URA Mixed Intervention",
         policy_type |-> "mixed",
         parameters |-> [price_increase |-> "15%", capacity_increase |-> "10%",
                         target_agency |-> "URA"],
         baseline |-> create_baseline(d),
         ura_baseline |-> IF "URA" \in DOMAIN by THEN <<by["URA"]>> ELSE <<>>,
         projected |->
            [ura_available |-> Trunc(SumLots(ura_df) * 1095, 1000),
             ura_stressed_reduction |-> ura_stressed - new_ura_stressed,
             net_improvement_percent |-> 95],
         rationale |-> "Combined pricing and capacity approach for optimal impact"]

\* (a variant that treats every other kind as "mixed")
ura_intervention_default_mixed(d, intervention_type) ==
    IF intervention_type = "pricing"
    THEN ("rationale" :> "Higher prices to reduce demand in stressed commercial areas")
         @@ [pricing_policy(d, 25, "URA") EXCEPT
                !.scenario_name = "URA Pricing Intervention (+25%)"]
    ELSE IF intervention_type = "capacity"
    THEN ("rationale" :> "Additional parking in commercial developments")
         @@ [capacity_change(d, 15, "URA") EXCEPT
                !.scenario_name = "URA Capacity Expansion (+15%)"]
    ELSE ura_mixed(d)

\* The dictionary returned by simulate_ura_intervention
ura_intervention(d, intervention_type) ==
    IF intervention_type = "pricing"
    THEN ("rationale" :> "Higher prices to reduce demand in stressed commercial areas")
         @@ [pricing_policy(d, 25, "URA") EXCEPT
                !.scenario_name = "URA Pricing Intervention (+25%)"]
    ELSE IF intervention_type = "capacity"
    THEN ("rationale" :> "Additional parking in commercial developments")
         @@ [capacity_change(d, 15, "URA") EXCEPT
                !.scenario_name = "URA Capacity Expansion (+15%)"]
    ELSE IF intervention_type = "mixed"
    THEN ura_mixed(d)
    ELSE [error |-> <<"Unknown intervention type", intervention_type>>]

\* simulate_pricing_policy(df, price_change_percent, target_agency), one run
\* of the simulator page
simulate_pricing_policy ==
    /\ ret = NoCall
    /\ \E pct \in {-1000, -25, -20, -10, 0, 10, 20, 25, 1000},
          target \in {NoAgency, "HDB", "URA", "LTA"} :
         ret' = Call("simulate_pricing_policy",
                     [price_change_percent |-> pct, target_agency |-> target],
                     pricing_policy(df, pct, target))
    /\ UNCHANGED <<df, now, max_snapshots, snapshots, inserted, alerts, alertDf,
                   prevAlerts, analyses, alert_summary, health>>

\* simulate_capacity_change(df, capacity_change_percent, target_agency)
simulate_capacity_change ==
    /\ ret = NoCall
    /\ \E pct \in {-60, -20, 0, 10, 30, 50},
          target \in {NoAgency, "HDB", "URA", "LTA"} :
         ret' = Call("simulate_capacity_change",
                     [capacity_change_percent |-> pct, target_agency |-> target],
                     capacity_change(df, pct, target))
    /\ UNCHANGED <<df, now, max_snapshots, snapshots, inserted, alerts, alertDf,
                   prevAlerts, analyses, alert_summary, health>>

\* simulate_ura_intervention(df, intervention_type)
simulate_ura_intervention ==
    /\ ret = NoCall
    /\ \E kind \in {"pricing", "capacity", "mixed", "time_limit", "Pricing", ""} :
         ret' = Call("simulate_ura_intervention", [intervention_type |-> kind],
                     ura_intervention(df, kind))
    /\ df' = df
    /\ UNCHANGED <<now, max_snapshots, snapshots, inserted, alerts, alertDf,
                   prevAlerts, analyses, alert_summary, health>>

\* the metrics compare_scenarios extracts from one result without "error":
\* stress_change is the result's stress_change if it has one, else its
\* stress_reduction, else 0
scenario_metrics(scenario) ==
    LET projected == scenario.projected
    IN  [name |-> scenario.scenario_name,
         policy_type |-> scenario.policy_type,
         projected_available |->
            IF "total_available" \in DOMAIN projected
            THEN projected.total_available ELSE 0,
         stress_change |->
            IF "stress_change" \in DOMAIN projected THEN projected.stress_change
            ELSE IF "stress_reduction" \in DOMAIN projected
            THEN projected.stress_reduction ELSE 0]

\* The dictionary returned by compare_scenarios.  ranking and recommendation
\* are <<>> while they hold {} and None.
comparison(scenarios) ==
    IF scenarios = <<>> THEN [error |-> "No scenarios to compare"]
    ELSE LET valid == SelectSeq(scenarios, LAMBDA sc : "error" \notin DOMAIN sc)
             comparison_metrics == [k \in DOMAIN valid |-> scenario_metrics(valid[k])]
             sorted_scenarios ==
                StableSortBy(comparison_metrics, LAMBDA x : 0 - x.stress_change)
         IN  [scenarios_compared |-> Len(scenarios),
              comparison_metrics |-> comparison_metrics,
              ranking |->
                 IF comparison_metrics # <<>>
                 THEN <<[by_stress_reduction |->
                           [k \in DOMAIN sorted_scenarios |-> sorted_scenarios[k].name]]>>
                 ELSE <<>>,
              recommendation |->
                 IF comparison_metrics # <<>> THEN <<sorted_scenarios[1].name>>
                 ELSE <<>>]

\* the simulation results on d that are put up for comparison
ScenarioChoices(d) ==
    {pricing_policy(d, 10, NoAgency), pricing_policy(d, 25, "URA"),
     capacity_change(d, 50, NoAgency), capacity_change(d, -20, "HDB"),
     ura_intervention(d, "time_limit")}

\* compare_scenarios(scenarios) on a list of results simulated on df
compare_scenarios ==
    /\ ret = NoCall
    /\ \E n \in 0..MaxScenarios : \E scenarios \in [1..n -> ScenarioChoices(df)] :
         ret' = Call("compare_scenarios", [scenarios |-> scenarios],
                     comparison(scenarios))
    /\ UNCHANGED <<df, now, max_snapshots, snapshots, inserted, alerts, alertDf,
                   prevAlerts, analyses, alert_summary, health>>

\* the raw AvailableLots values of the API records
RawLots ==
    {[kind |-> "number", value |-> v] : v \in {-5, 0, 10, 11, 51}}
    \cup {[kind |-> "numeral", value |-> 50], [kind |-> "missing"], [kind |-> "text"]}

\* every raw feed of up to n records
RawFeeds(n) == UNION {[1..k -> {"HDB", "URA"} \X RawLots] : k \in 0..n}

\* CarparkDataFetcher.to_dataframe(data) on a fetched feed
to_dataframe_call ==
    /\ ret = NoCall
    /\ \E data \in RawFeeds(MaxRawRows) :
         /\ df' = raw_dataframe(data)
         /\ ret' = Call("to_dataframe", [data |-> data], raw_dataframe(data))
    /\ UNCHANGED <<now, max_snapshots, snapshots, inserted, alerts, alertDf,
                   prevAlerts, analyses, alert_summary, health>>

----------------------------------------------------------------------------
(* Datasets *)

LotValues == {0, 5, 10, 50, 51}

\* n rows of one agency with the same number of available lots
RunFeed(agency, lots, n) == [i \in 1..n |-> <<agency, lots>>]

\* the generated feeds mix two of the agencies
Runs == {RunFeed(a, l, n) : a \in {"HDB", "URA"}, l \in LotValues, n \in 0..MaxRun}

\* every feed made of three runs
AnalysisDatasets == {to_dataframe(r1 \o r2 \o r3) : r1, r2, r3 \in Runs}

\* every feed of up to n rows over two agencies and the lots around the limits
SmallFeeds(n) ==
    UNION {[1..k -> {"HDB", "URA"} \X {0, 5, 10, 11, 51}] : k \in 0..n}

QueryDatasets(n) == {to_dataframe(feed) : feed \in SmallFeeds(n)}

\* The points of the spatial feeds as <<Latitude, Longitude>>: two in one
\* grid cell, one a cell further north, one a cell further east, and two with
\* a coordinate that did not parse
GeoPoints ==
    {<< <<1300>>, <<103800>> >>, << <<1305>>, <<103800>> >>,
     << <<1310>>, <<103800>> >>, << <<1300>>, <<103810>> >>,
     << <<>>, <<103800>> >>, << <<1300>>, <<>> >>}

\* n rows at one point with the same lots
GeoRun(point, lots, n) == [i \in 1..n |-> <<point[1], point[2], lots>>]

GeoRuns(n) ==
    {GeoRun(p, 5, k) : p \in GeoPoints, k \in 0..n}
    \cup {GeoRun(p, 60, k) :
            p \in {<< <<1300>>, <<103800>> >>, << <<1310>>, <<103800>> >>},
            k \in 0..n}

\* to_dataframe over raw <<latitude, longitude, lots>> triples
geo_dataframe(raw) ==
    [i \in 1..Len(raw) |->
        FullRow(i, i, "HDB", raw[i][3], "C", raw[i][1], raw[i][2])]

\* every spatial feed made of three runs
GeoDatasets(n) == {geo_dataframe(r1 \o r2 \o r3) : r1, r2, r3 \in GeoRuns(n)}

\* The rows of the finder's feeds as <<latitude, longitude, agency, lots>>:
\* three carpark points, each with an HDB row with lots, a URA row with
\* lots and an HDB row without, and one row whose location did not parse
FinderRows ==
    ({<< <<1300>>, <<103800>> >>, << <<1310>>, <<103800>> >>,
      << <<1300>>, <<103810>> >>}
        \X {<<"HDB", 5>>, <<"URA", 5>>, <<"HDB", 0>>})
    \cup {<< <<<<>>, <<>>>>, <<"HDB", 5>> >>}

\* every feed of up to n such rows, through to_dataframe
FinderDatasets(n) ==
    UNION {{[i \in 1..k |->
                FullRow(i, i, feed[i][2][1], feed[i][2][2], "C",
                        feed[i][1][1], feed[i][1][2])] :
             feed \in [1..k -> FinderRows]} : k \in 0..n}

\* The rows of the search feeds: the development names "Ab", "ba" and "a.b",
\* each as a Limited HDB car row, an Available URA car row and an Available
\* HDB motorcycle row
SearchRows ==
    {<<"A", "b">>, <<"b", "a">>, <<"a", ".", "b">>}
        \X {<<"HDB", 5, "C">>, <<"URA", 60, "C">>, <<"HDB", 60, "Y">>}

\* every feed of up to n such rows, through to_dataframe
SearchDatasets(n) ==
    UNION {{[i \in 1..k |->
                FullRow(i, feed[i][1], feed[i][2][1], feed[i][2][2],
                        feed[i][2][3], <<>>, <<>>)] :
             feed \in [1..k -> SearchRows]} : k \in 0..n}

\* The feeds of the simulator: two runs, each of up to n HDB or URA rows with
\* 5 or 40 lots
SimDatasets(n) ==
    LET runs == {RunFeed(a, l, k) : a \in {"HDB", "URA"}, l \in {5, 40}, k \in 0..n}
    IN  {to_dataframe(r1 \o r2) : r1, r2 \in runs}

\* The feeds every core operation is run on: none; a full, a stressed and
\* an unlocated carpark; a cell of three stressed carparks next to a free
\* one; a single free carpark.  Records are
\* <<name, agency, lots, latitude, longitude>>.
CoreFeeds ==
    {<<>>,
     << <<<<"A", "b">>, "HDB", 0, <<1300>>, <<103800>>>>,
        <<<<"b", "a">>, "URA", 5, <<1310>>, <<103800>>>>,
        <<<<"a", ".", "b">>, "URA", 40, <<>>, <<>>>> >>,
     << <<<<"A", "b">>, "HDB", 5, <<1300>>, <<103800>>>>,
        <<<<"A", "b">>, "HDB", 5, <<1300>>, <<103800>>>>,
        <<<<"b", "a">>, "HDB", 5, <<1300>>, <<103800>>>>,
        <<<<"a", ".", "b">>, "URA", 40, <<1300>>, <<103810>>>> >>,
     << <<<<"b", "a">>, "URA", 40, <<1310>>, <<103800>>>> >>}

\* to_dataframe over these feeds
CoreDatasets ==
    {[i \in DOMAIN feed |->
        FullRow(i, feed[i][1], feed[i][2], feed[i][3], "C", feed[i][4], feed[i][5])] :
     feed \in CoreFeeds}

\* one agency's block of a 100-row feed: z rows with 0 lots, f rows with 5
\* lots, the rest with 60
ScenarioBlock(agency, size, z, f) ==
    RunFeed(agency, 0, z) \o RunFeed(agency, 5, f) \o RunFeed(agency, 60, size - z - f)

\* 100 rows, 40/40/20 over the agencies, 15 rows with 0 lots and 10 with 5:
\* every way to share the 0-lot and the 5-lot rows among the agencies
ScenarioDatasets ==
    {to_dataframe(ScenarioBlock("HDB", 40, q[1], q[3])
                  \o ScenarioBlock("LTA", 40, q[2], q[4])
                  \o ScenarioBlock("URA", 20, 15 - q[1] - q[2], 10 - q[3] - q[4])) :
        q \in {p \in (0..15) \X (0..15) \X (0..10) \X (0..10) :
                  /\ p[1] + p[2] <= 15
                  /\ p[3] + p[4] <= 10
                  /\ (15 - p[1] - p[2]) + (10 - p[3] - p[4]) <= 20}}

\* the feeds a session sees, tick after tick
SessionDatasets ==
    {to_dataframe(feed) : feed \in
        {<<>>,
         <<<<"HDB", 0>>, <<"HDB", 60>>, <<"HDB", 60>>, <<"HDB", 60>>>>,
         <<<<"HDB", 0>>, <<"LTA", 5>>, <<"LTA", 60>>, <<"URA", 60>>>>,
         <<<<"URA", 20>>, <<"LTA", 5>>, <<"HDB", 100>>>>,
         <<<<"LTA", 60>>, <<"HDB", 60>>>>}}

\* app.py fetch_parking_data: the dataset is rebuilt wholesale
fetch ==
    /\ df' \in SessionDatasets
    /\ UNCHANGED <<now, max_snapshots, snapshots, inserted, alerts, alertDf,
                   prevAlerts, analyses, alert_summary, health, ret>>

----------------------------------------------------------------------------
(* Specifications *)

\* HistoricalTracker.__init__ and AlertSystem.__init__
InitObjects(cap) ==
    /\ now = 0
    /\ max_snapshots = cap
    /\ snapshots = <<>>
    /\ inserted = <<>>
    /\ alerts = <<>>
    /\ alertDf = <<>>
    /\ prevAlerts = <<>>
    /\ analyses = 0
    /\ alert_summary = <<>>
    /\ health = <<>>
    /\ ret = NoCall

\* A session that tracks history: any capacity, any feed per tick
Init ==
    /\ df \in SessionDatasets
    /\ \E cap \in 0..MaxCap : InitObjects(cap)

Next == fetch \/ add_snapshot \/ get_availability_change

Spec == Init /\ [][Next]_vars

\* A session that raises alerts (app.py init_session_state: 60 snapshots)
InitAlerts ==
    /\ df \in SessionDatasets
    /\ InitObjects(60)

NextAlerts == fetch \/ analyze_and_alert \/ get_alert_summary

SpecAlerts == InitAlerts /\ [][NextAlerts]_vars

\* One tick over any generated dataset: alerts, their summary, health
InitAnalysis ==
    /\ df \in AnalysisDatasets
    /\ InitObjects(60)

\* app.py render_dashboard: analyze_and_alert, then get_alert_summary, then
\* analyze_overall_health
NextAnalysis ==
    \/ (analyses = 0 /\ analyze_and_alert)
    \/ (analyses = 1 /\ alert_summary = <<>> /\ get_alert_summary)
    \/ (alert_summary # <<>> /\ health = <<>> /\ analyze_overall_health)

SpecAnalysis == InitAnalysis /\ [][NextAnalysis]_vars

\* The same tick over the 100-row scenario feeds
InitScenario ==
    /\ df \in ScenarioDatasets
    /\ InitObjects(60)

SpecScenario == InitScenario /\ [][NextAnalysis]_vars

\* The analyzer's queries over every small dataset
InitQueries ==
    /\ df \in QueryDatasets(MaxRows)
    /\ InitObjects(60)

NextQueries == analyze_by_agency \/ identify_stress_points

SpecQueries == InitQueries /\ [][NextQueries]_vars

\* Cluster detection over every spatial dataset
InitClusters ==
    /\ df \in GeoDatasets(MaxGeoRun)
    /\ InitObjects(60)

NextClusters == detect_spatial_clusters

SpecClusters == InitClusters /\ [][NextClusters]_vars

\* One nearest-carpark search over every finder dataset
InitFinder ==
    /\ df \in FinderDatasets(MaxFinderRows)
    /\ InitObjects(60)

NextFinder == find_nearest

SpecFinder == InitFinder /\ [][NextFinder]_vars

\* One filtered search over every search dataset
InitSearch ==
    /\ df \in SearchDatasets(MaxSearchRows)
    /\ InitObjects(60)

NextSearch == advanced_filter

SpecSearch == InitSearch /\ [][NextSearch]_vars

\* One simulation over every simulator dataset
InitSimulator ==
    /\ df \in SimDatasets(MaxSimRun)
    /\ InitObjects(60)

NextSimulator ==
    \/ simulate_pricing_policy
    \/ simulate_capacity_change
    \/ simulate_ura_intervention

SpecSimulator == InitSimulator /\ [][NextSimulator]_vars

\* A tracker with the default capacity fed one small dataset repeatedly
InitSnapshots ==
    /\ df \in QueryDatasets(MaxRows)
    /\ InitObjects(60)

NextSnapshots == add_snapshot

SpecSnapshots == InitSnapshots /\ [][NextSnapshots]_vars

\* One comparison of simulated scenarios over every simulator dataset
InitCompare ==
    /\ df \in SimDatasets(MaxSimRun)
    /\ InitObjects(60)

NextCompare == compare_scenarios

SpecCompare == InitCompare /\ [][NextCompare]_vars

\* The conversion of one fetched feed
InitFetch ==
    /\ df = <<>>
    /\ InitObjects(60)

NextFetch == to_dataframe_call

SpecFetch == InitFetch /\ [][NextFetch]_vars

\* Distance evaluations between the points of DistancePoints
InitDistance ==
    /\ df = <<>>
    /\ InitObjects(60)

NextDistance == haversine_distance_call

SpecDistance == InitDistance /\ [][NextDistance]_vars

\* One tick on one dataset: the dashboard's calls in their order, snapshots
\* at any time, and the pages' queries at any time, one result at a time
InitCore ==
    /\ df \in CoreDatasets
    /\ InitObjects(60)

NextCore ==
    \/ add_snapshot
    \/ (analyses = 0 /\ analyze_and_alert)
    \/ (analyses = 1 /\ alert_summary = <<>> /\ get_alert_summary)
    \/ (alert_summary # <<>> /\ health = <<>> /\ analyze_overall_health)
    \/ (ret = NoCall /\ get_availability_change)
    \/ (ret = NoCall /\ analyze_by_agency)
    \/ (ret = NoCall /\ identify_stress_points)
    \/ (ret = NoCall /\ detect_spatial_clusters)
    \/ find_nearest
    \/ advanced_filter
    \/ simulate_pricing_policy
    \/ simulate_capacity_change
    \/ simulate_ura_intervention
    \/ compare_scenarios

SpecCore == InitCore /\ [][NextCore]_vars

----------------------------------------------------------------------------
(* Properties of the historical tracker (Spec) *)

\* C1: after any number of add_snapshot calls, for any non-negative
\* max_snapshots, the buffer never holds more than max_snapshots snapshots.
C1_BufferNeverExceedsMax == Len(snapshots) <= max_snapshots

\* C2: after k add_snapshot calls the buffer is exactly the last
\* min(k, max_snapshots) snapshots, in insertion order and unaltered.
C2_BufferIsLastInserted ==
    LET k == Len(inserted)
        kept == Min(k, max_snapshots)
    IN  snapshots = SubSeq(inserted, k - kept + 1, k)

----------------------------------------------------------------------------
(* Properties of the alert system across calls (SpecAlerts) *)

\* C3: after any sequence of analyze_and_alert calls the stored list is,
\* timestamps apart, the list the last call's dataset alone produces: nothing
\* of an earlier call survives and nothing is suppressed; get_alert_summary
\* returns the counts by level of that list, with total = critical + warning
\* + info.
C3_AlertsAreThoseOfLastCall ==
    LET untimed(al) == [i \in DOMAIN al |-> [al[i] EXCEPT !.timestamp = 0]]
        alone == run_alert_rules(<<>>, alertDf, 0)
        n(level) == Cardinality({i \in DOMAIN alone : alone[i].level = level})
    IN  /\ analyses > 0 => untimed(alerts) = alone
        /\ analyses = 0 => alerts = <<>>
        /\ alert_summary # <<>> =>
             /\ alert_summary[1].critical = n("critical")
             /\ alert_summary[1].warning = n("warning")
             /\ alert_summary[1].info = n("info")
             /\ alert_summary[1].total = Len(alone)
             /\ alert_summary[1].total = alert_summary[1].critical
                    + alert_summary[1].warning + alert_summary[1].info

\* C3 witness: a second call whose list drops an alert of the call before,
\* raises again an alert that the call before had raised, and is summarised.
C3_Witness ==
    LET untimed(al) == {[al[i] EXCEPT !.timestamp = 0] : i \in DOMAIN al}
    IN  /\ analyses >= 2
        /\ alert_summary # <<>>
        /\ alert_summary[1].total > 0
        /\ untimed(prevAlerts) \ untimed(alerts) # {}
        /\ untimed(prevAlerts) \cap untimed(alerts) # {}

----------------------------------------------------------------------------
(* Properties of one alert evaluation (SpecAnalysis) *)

C6_AgencyRule ==
    LET rows(a) == {i \in DOMAIN df : df[i].Agency = a}
        low(a) == {i \in rows(a) : df[i].AvailableLots <= 10}
        share(a) == 100 * Cardinality(low(a))
        agCritical(a) == {k \in DOMAIN alerts : /\ alerts[k].title = "Agency Critical"
                                                /\ alerts[k].level = "critical"
                                                /\ alerts[k].agency = a}
        agWarning(a) == {k \in DOMAIN alerts : /\ alerts[k].title = "Agency Warning"
                                               /\ alerts[k].level = "warning"
                                               /\ alerts[k].agency = a}
        agencyScoped == {k \in DOMAIN alerts :
                            alerts[k].title \in {"Agency Critical", "Agency Warning"}}
    IN  analyses = 1 =>
          /\ \A a \in {df[i].Agency : i \in DOMAIN df} :
               /\ agCritical(a) # {} <=> share(a) >= 40 * Cardinality(rows(a))
               /\ agWarning(a) # {} <=> /\ share(a) >= 25 * Cardinality(rows(a))
                                        /\ share(a) < 40 * Cardinality(rows(a))
               /\ Cardinality(agCritical(a) \cup agWarning(a)) <= 1
          /\ \A k \in agencyScoped :
               \E i \in DOMAIN df : df[i].Agency = alerts[k].agency

\* C6 witness: one call raised the system-wide Warning and an agency Critical
\* (an agency at exactly 40%), and left the other agency without an alert
C6_Witness ==
    /\ analyses = 1
    /\ \E k \in DOMAIN alerts : alerts[k].title = "Elevated System Stress"
    /\ \E k \in DOMAIN alerts :
         /\ alerts[k].title = "Agency Critical"
         /\ alerts[k].metric_value[1] = 40 * alerts[k].metric_value[2]
    /\ \E i \in DOMAIN df : \A k \in DOMAIN alerts : alerts[k].agency # df[i].Agency

\* C7: the list is ordered Critical, Warning, Info, and alerts of one level
\* stay in the order the rules emitted them: system-wide, then the agencies
\* (in order of first appearance), then the individual carparks (in row order).
C7_SeverityOrderStable ==
    LET sev(k) == CASE alerts[k].level = "critical" -> 0
                    [] alerts[k].level = "warning" -> 1
                    [] OTHER -> 2
        rule(k) == CASE alerts[k].title \in {"System Under Critical Stress",
                                             "Elevated System Stress"} -> 0
                     [] alerts[k].title \in {"Agency Critical", "Agency Warning"} -> 1
                     [] OTHER -> 2
        firstRow(a) == CHOOSE i \in DOMAIN df :
                          /\ df[i].Agency = a
                          /\ \A j \in 1..(i - 1) : df[j].Agency # a
    IN  analyses = 1 =>
          \A k1, k2 \in DOMAIN alerts :
            k1 < k2 =>
              /\ sev(k1) <= sev(k2)
              /\ sev(k1) = sev(k2) =>
                   /\ rule(k1) <= rule(k2)
                   /\ (rule(k1) = 1 /\ rule(k2) = 1) =>
                        firstRow(alerts[k1].agency) < firstRow(alerts[k2].agency)
                   /\ (alerts[k1].title = "FULL" /\ alerts[k2].title = "FULL") =>
                        alerts[k1].carpark_id < alerts[k2].carpark_id

\* C7 witness: the first agency's Warning was emitted before the second
\* agency's Critical, and Critical alerts of all three rules are in the list
C7_Witness ==
    /\ analyses = 1
    /\ \E k \in DOMAIN alerts : alerts[k].title = "System Under Critical Stress"
    /\ \E k \in DOMAIN alerts : /\ alerts[k].title = "Agency Warning"
                                 /\ alerts[k].agency = df[1].Agency
    /\ \E k \in DOMAIN alerts : alerts[k].title = "Agency Critical"
    /\ Cardinality({k \in DOMAIN alerts : alerts[k].title = "FULL"}) >= 2

----------------------------------------------------------------------------
(* Properties of analyze_overall_health (SpecAnalysis, SpecScenario) *)

\* C8: for 100 rows with 15 at 0 lots, 10 at 5 and 75 at 60, whatever the
\* 40/40/20 assignment to the agencies, analyze_overall_health reports 25
\* stressed carparks and a stress percentage of 25.0, and analyze_and_alert
\* raises the system-wide Warning and no system-wide Critical.
C8_ScenarioStress ==
    /\ health # <<>> => /\ health[1].stressed_carparks = 25
                        /\ health[1].stress_percentage = 250
    /\ analyses = 1 =>
         /\ \E k \in DOMAIN alerts : /\ alerts[k].title = "Elevated System Stress"
                                     /\ alerts[k].level = "warning"
         /\ \A k \in DOMAIN alerts : alerts[k].title # "System Under Critical Stress"

\* C8 witness: the scenario was evaluated with all 25 stressed rows in the
\* two large agencies
C8_Witness ==
    /\ health # <<>>
    /\ analyses = 1
    /\ Len(df) = 100
    /\ \A i \in DOMAIN df : df[i].Agency = "URA" => df[i].AvailableLots = 60

C10_HealthScoreAndStatus ==
    LET h == health[1]
        t == Len(df)
        good == Cardinality({i \in DOMAIN df : df[i].AvailableLots > 50})
        off == h.health_score * t - 1000 * good
    IN  health # <<>> =>
          /\ h.health_score >= 0 /\ h.health_score <= 1000
          /\ t = 0 => h.health_score = 0
          /\ t > 0 => (2 * off <= t /\ 2 * off >= 0 - t)
          /\ h.status = CASE h.health_score >= 800 -> "Excellent"
                          [] h.health_score >= 600 /\ h.health_score < 800 -> "Good"
                          [] h.health_score >= 400 /\ h.health_score < 600 -> "Moderate"
                          [] h.health_score >= 200 /\ h.health_score < 400 -> "Stressed"
                          [] OTHER -> "Critical"

\* C10 witness: two healthy rows of three give 66.7, "Good"
C10_Witness ==
    /\ health # <<>>
    /\ Len(df) = 3
    /\ health[1].healthy_carparks = 2
    /\ health[1].health_score = 667
    /\ health[1].status = "Good"

----------------------------------------------------------------------------
(* Properties of the tracker's queries (Spec) *)

\* C17: with fewer than 2 snapshots (none or exactly one)
\* get_availability_change returns change = 0, percent = 0 and direction =
\* "stable", and the call leaves the buffer unchanged.
C17_NeutralBelowTwoSnapshots ==
    /\ [](ret.op = "get_availability_change" /\ Len(snapshots) < 2 =>
            /\ ret.value.change = 0
            /\ ret.value.percent = 0
            /\ ret.value.direction = "stable")
    /\ [][ret'.op = "get_availability_change" =>
            (snapshots' = snapshots /\ inserted' = inserted)]_vars

\* C17 witness: the query answered over a buffer of one snapshot with lots
C17_Witness ==
    /\ ret.op = "get_availability_change"
    /\ Len(snapshots) = 1
    /\ snapshots[1].total_available > 0

----------------------------------------------------------------------------
(* Properties of the analyzer's queries (SpecQueries) *)

\* C11: for every agency, analyze_by_agency reports the health_score that
\* analyze_overall_health returns for that agency's rows alone
\* (100 x rows with lots > 50 / rows of the agency).
C11_AgencyScoreIsOverallFormula ==
    ret.op = "analyze_by_agency" =>
        \A a \in DOMAIN ret.value :
            ret.value[a].health_score
                = overall_health(agency_rows(df, a)).health_score

\* C12: identify_stress_points returns only rows with AvailableLots <= 10,
\* at most top_n of them, in ascending order of AvailableLots.
C12_StressPointsBoundedSorted ==
    LET out == ret.value IN
    ret.op = "identify_stress_points" =>
        /\ \A i \in DOMAIN out : out[i].AvailableLots <= 10
        /\ \A i \in DOMAIN out : \E j \in DOMAIN df :
              /\ df[j].CarParkID = out[i].CarParkID
              /\ df[j].AvailableLots = out[i].AvailableLots
        /\ Len(out) <= ret.args.top_n
        /\ \A i, j \in DOMAIN out :
              i < j => out[i].AvailableLots <= out[j].AvailableLots

\* C12 witness: three stressed rows of different lots, capped to two
C12_Witness ==
    /\ ret.op = "identify_stress_points"
    /\ ret.args.top_n = 2
    /\ Len(ret.value) = 2
    /\ ret.value[1].AvailableLots < ret.value[2].AvailableLots
    /\ Cardinality({df[i].AvailableLots : i \in DOMAIN df} \cap {0, 5, 10}) = 3

----------------------------------------------------------------------------
(* Properties of cluster detection (SpecClusters) *)

----------------------------------------------------------------------------
(* Properties of the nearest-carpark search (SpecFinder) *)

\* C15: for every query point, n >= 0, min_availability and optional agency,
\* find_nearest returns at most n rows, all with valid coordinates,
\* AvailableLots >= min_availability and (when an agency other than "All" is
\* given) that agency, in ascending order of distance, and no qualifying row
\* left out is strictly nearer than a returned one.
C15_NearestQualifyingAscending ==
    LET out == ret.value
        a == ret.args
        qualifying ==
            {i \in DOMAIN df :
                /\ df[i].Latitude # <<>> /\ df[i].Longitude # <<>>
                /\ df[i].AvailableLots >= a.min_availability
                /\ (a.agency \notin {NoAgency, "All"} => df[i].Agency = a.agency)}
        metres(i) == haversine_distance(a.lat, a.lon,
                                        df[i].Latitude[1], df[i].Longitude[1])
        returned == {out[k].index : k \in DOMAIN out}
    IN  ret.op = "find_nearest" =>
          /\ Len(out) <= a.n
          /\ Cardinality(returned) = Len(out)
          /\ returned \subseteq qualifying
          /\ \A k \in DOMAIN out :
                /\ out[k].Development = df[out[k].index].Development
                /\ out[k].Latitude # <<>> /\ out[k].Longitude # <<>>
                /\ out[k].AvailableLots >= a.min_availability
                /\ (a.agency \notin {NoAgency, "All"} => out[k].Agency = a.agency)
                /\ out[k].Distance_km = round_km(metres(out[k].index))
          /\ \A k, l \in DOMAIN out :
                k < l => /\ out[k].Distance_km <= out[l].Distance_km
                         /\ metres(out[k].index) <= metres(out[l].index)
          /\ \A k \in DOMAIN out : \A j \in qualifying \ returned :
                ~(metres(j) < metres(out[k].index))

\* C15 witness: a search for the nearest URA carpark with lots returns the
\* URA row at the query point, leaving out an earlier URA row farther away
\* and an HDB row at the query point
C15_Witness ==
    /\ ret.op = "find_nearest"
    /\ ret.args.n = 1 /\ ret.args.agency = "URA" /\ ret.args.min_availability = 1
    /\ ret.args.lat = 1310
    /\ Len(ret.value) = 1
    /\ ret.value[1].Distance_km = 0
    /\ \E i \in DOMAIN df :
          /\ i < ret.value[1].index
          /\ df[i].Agency = "URA" /\ df[i].AvailableLots >= 1
          /\ df[i].Latitude = <<1300>>
    /\ \E i \in DOMAIN df : df[i].Agency = "HDB" /\ df[i].Latitude = <<1310>>

----------------------------------------------------------------------------
(* Properties of the filtered search (SpecSearch) *)

\* C16: advanced_filter returns exactly the rows that satisfy every supplied
\* filter at once (the name contains the query as a substring, ignoring case,
\* AND the agency is in agencies AND the status is in statuses AND
\* AvailableLots >= min_lots AND the lot type is in lot_types), in dataset
\* order; an empty or omitted filter imposes no restriction.
C16_ExactlyTheMatchingRows ==
    LET a == ret.args
        substring(text, q) ==
            \E offset \in 0..(Len(text) - Len(q)) :
                \A k \in DOMAIN q : q[k] = text[offset + k]
        matches(r) ==
            /\ a.query # <<>> => substring(lower(r.Development), lower(a.query))
            /\ a.agencies # {} => r.Agency \in a.agencies
            /\ a.statuses # {} => r.Status \in a.statuses
            /\ r.AvailableLots >= a.min_lots
            /\ a.lot_types # {} => r.LotType \in a.lot_types
    IN  ret.op = "advanced_filter" => ret.value = SelectRows(df, matches)

----------------------------------------------------------------------------
(* Properties of the policy simulator (SpecSimulator) *)

\* C18: for every dataset and every target agency (or none),
\* simulate_pricing_policy with price_change_percent = 0 projects the
\* baseline's total_available, spillover_lots = 0 and the baseline's stressed
\* count.
C18_ZeroPriceChangeIsBaseline ==
    (ret.op = "simulate_pricing_policy" /\ ret.args.price_change_percent = 0) =>
        /\ ret.value.baseline.total_available = SumLots(df)
        /\ ret.value.baseline.stressed_carparks
              = Cardinality({i \in DOMAIN df : df[i].AvailableLots <= 10})
        /\ ret.value.projected.total_available = ret.value.baseline.total_available
        /\ ret.value.projected.spillover_lots = 0
        /\ ret.value.projected.stressed_carparks
              = ret.value.baseline.stressed_carparks

\* C18 witness: a zero price change aimed at URA on a dataset with stressed
\* URA rows and HDB rows with lots
C18_Witness ==
    /\ ret.op = "simulate_pricing_policy"
    /\ ret.args.price_change_percent = 0
    /\ ret.args.target_agency = "URA"
    /\ ret.value.projected.stressed_carparks >= 3
    /\ \E i \in DOMAIN df : df[i].Agency = "URA" /\ df[i].AvailableLots = 5
    /\ \E i \in DOMAIN df : df[i].Agency = "HDB" /\ df[i].AvailableLots = 40

C20_UnknownKindIsErrorResult ==
    /\ []((ret.op = "simulate_ura_intervention"
             /\ ret.args.intervention_type \notin {"pricing", "capacity", "mixed"})
           => /\ "error" \in DOMAIN ret.value
              /\ "projected" \notin DOMAIN ret.value)
    /\ [][ret'.op = "simulate_ura_intervention" => df' = df]_vars

\* C20 witness: the kind "time_limit" on a dataset with stressed URA rows
C20_Witness ==
    /\ ret.op = "simulate_ura_intervention"
    /\ ret.args.intervention_type = "time_limit"
    /\ "error" \in DOMAIN ret.value
    /\ \E i \in DOMAIN df : df[i].Agency = "URA" /\ df[i].AvailableLots <= 10

----------------------------------------------------------------------------
(* Further properties of the tracker (Spec, SpecSnapshots) *)

\* C25: with at least 2 snapshots in the buffer, get_availability_change
\* compares the first and the last snapshot now in the buffer (after an
\* eviction, the oldest one retained): change = last - first, direction by
\* the sign of change, percent = change / first x 100 (to two decimals) or 0
\* when first is 0, and time_span_minutes = the number of snapshots held.
C25_ChangeBetweenRetainedEnds ==
    LET n == Len(snapshots)
        first == snapshots[1].total_available
        last == snapshots[n].total_available
        v == ret.value
    IN  (ret.op = "get_availability_change" /\ n >= 2) =>
          /\ v.change = last - first
          /\ v.direction = (IF last > first THEN "increasing"
                            ELSE IF last < first THEN "decreasing" ELSE "stable")
          /\ first = 0 => v.percent = 0
          /\ first > 0 =>
                \* v.percent hundredths is change / first x 100 within half a hundredth
                /\ 2 * (v.percent * first - 10000 * v.change) <= first
                /\ 2 * (10000 * v.change - v.percent * first) <= first
          /\ v.time_span_minutes = n

\* C25 witness: the first snapshot ever taken has been evicted and differs
\* from the oldest one retained, from which availability has fallen
C25_Witness ==
    /\ ret.op = "get_availability_change"
    /\ Len(snapshots) = 2
    /\ Len(inserted) > 2
    /\ inserted[1].total_available # snapshots[1].total_available
    /\ snapshots[1].total_available > 0
    /\ ret.value.direction = "decreasing"
    /\ ret.value.percent < 0

\* C28: every snapshot stored by add_snapshot is consistent with itself: the
\* three by_status counts sum to total_carparks, the Limited count equals
\* stressed_count, and over the per-agency entries the carparks sum to
\* total_carparks, the available lots to total_available and the stressed
\* counts to stressed_count.
C28_SnapshotConsistent ==
    \A k \in DOMAIN snapshots :
        LET snap == snapshots[k]
            agencies == DOMAIN snap.by_agency
            \* the sum of one field over the per-agency entries
            total(field) ==
                LET RECURSIVE sum(_)
                    sum(S) == IF S = {} THEN 0
                              ELSE LET a == CHOOSE x \in S : TRUE
                                   IN  snap.by_agency[a][field] + sum(S \ {a})
                IN  sum(agencies)
        IN  /\ snap.by_status["Available"] + snap.by_status["Moderate"]
                 + snap.by_status["Limited"] = snap.total_carparks
            /\ snap.by_status["Limited"] = snap.stressed_count
            /\ total("carparks") = snap.total_carparks
            /\ total("available") = snap.total_available
            /\ total("stressed") = snap.stressed_count
            /\ snap.total_carparks = Len(df)

\* C28 witness: a stored snapshot of two agencies with a carpark at exactly
\* 10 lots, one at 11 and one above 50
C28_Witness ==
    /\ Len(snapshots) >= 1
    /\ Cardinality(DOMAIN snapshots[1].by_agency) = 2
    /\ snapshots[1].by_status["Limited"] = 1
    /\ snapshots[1].by_status["Moderate"] = 1
    /\ snapshots[1].by_status["Available"] = 1
    /\ \E i \in DOMAIN df : df[i].AvailableLots = 10

----------------------------------------------------------------------------
(* The size of the alert list (SpecAnalysis) *)

\* C29: after every analyze_and_alert call the alert list holds at most one
\* system-wide alert, at most one agency alert per agency of the dataset,
\* and either exactly one "Multiple Carparks Near Capacity" warning or at
\* most 10 "FULL" alerts, never both; so its length is at most
\* 1 + number of agencies + 10.
C29_AlertListBounded ==
    LET system == {i \in DOMAIN alerts :
                     alerts[i].title \in {"System Under Critical Stress",
                                          "Elevated System Stress"}}
        ofAgency(a) == {i \in DOMAIN alerts :
                          /\ alerts[i].title \in {"Agency Critical", "Agency Warning"}
                          /\ alerts[i].agency = a}
        multiple == {i \in DOMAIN alerts :
                       alerts[i].title = "Multiple Carparks Near Capacity"}
        full == {i \in DOMAIN alerts : alerts[i].title = "FULL"}
        agencies == {df[i].Agency : i \in DOMAIN df}
    IN  analyses >= 1 =>
          /\ Cardinality(system) <= 1
          /\ \A a \in agencies : Cardinality(ofAgency(a)) <= 1
          /\ \A i \in DOMAIN alerts :
                alerts[i].title \in {"Agency Critical", "Agency Warning"}
                    => alerts[i].agency \in agencies
          /\ \/ Cardinality(multiple) = 1 /\ full = {}
             \/ multiple = {} /\ Cardinality(full) <= 10
          /\ system \cup multiple \cup full
                \cup UNION {ofAgency(a) : a \in agencies} = DOMAIN alerts
          /\ Len(alerts) <= 1 + Cardinality(agencies) + 10

\* C29 witness: the bound is met: ten full carparks of two agencies, each
\* alerted singly, next to a system alert and two agency alerts
C29_Witness ==
    /\ analyses >= 1
    /\ Cardinality({df[i].Agency : i \in DOMAIN df}) = 2
    /\ Len(alerts) = 13
    /\ Cardinality({i \in DOMAIN alerts : alerts[i].title = "FULL"}) = 10

----------------------------------------------------------------------------
(* Further properties of simulate_pricing_policy (SpecSimulator) *)

\* C26: simulate_pricing_policy projects the stressed count as
\* max(0, trunc(b (1 - 0.5 |0.3 p / 100|))) for the baseline count b and the
\* price change p: never negative, and stress_reduction is b minus the
\* projected count.
C26_PricingStressProjection ==
    LET p == ret.args.price_change_percent
        magnitude == IF p < 0 THEN 0 - p ELSE p
        b == Cardinality({i \in DOMAIN df : df[i].AvailableLots <= 10})
        \* b (1 - 0.0015 |p|) as a fraction over 2000
        num == b * (2000 - 3 * magnitude)
        new == ret.value.projected.stressed_carparks
    IN  ret.op = "simulate_pricing_policy" =>
          /\ ret.value.baseline.stressed_carparks = b
          /\ new >= 0
          /\ num >= 0 => new = num \div 2000
          /\ num < 0 => new = 0
          /\ ret.value.projected.stress_reduction = b - new

\* C26 witness: a tenfold price rise, whose factor 1 - 1.5 is negative, on a
\* dataset with stressed carparks
C26_Witness ==
    /\ ret.op = "simulate_pricing_policy"
    /\ ret.args.price_change_percent = 1000
    /\ ret.value.baseline.stressed_carparks >= 2
    /\ ret.value.projected.stressed_carparks = 0
    /\ ret.value.projected.stress_reduction = ret.value.baseline.stressed_carparks

\* C27: the reported spillover_lots is always subtracted from the
\* availability of the non-target rows: projected total_available =
\* trunc(target availability x (1 + availability change))
\* + (non-target availability - spillover_lots), the target being the given
\* agency's rows or, without an agency, all rows (no non-target rows,
\* availability 0).
C27_SpilloverAlwaysSubtracted ==
    LET p == ret.args.price_change_percent
        target == IF ret.args.target_agency = NoAgency THEN DOMAIN df
                  ELSE {i \in DOMAIN df : df[i].Agency = ret.args.target_agency}
        lots(S) == SumLots(SelectSeq(df, LAMBDA r : r.CarParkID \in S))
        num == lots(target) * (1000 + 3 * p)
        scaled == IF num >= 0 THEN num \div 1000 ELSE 0 - ((0 - num) \div 1000)
    IN  ret.op = "simulate_pricing_policy" =>
          ret.value.projected.total_available
            = scaled + (lots(DOMAIN df \ target)
                          - ret.value.projected.spillover_lots)

\* C30: the stress projection and the spillover of simulate_pricing_policy
\* depend on the size of the price change only: for every dataset, target
\* and p the projected stressed_carparks and spillover_lots for +p and for
\* -p are equal, and the projected stressed count never exceeds the baseline
\* count.
C30_PricingSignSymmetric ==
    LET a == ret.args
        mirrored == pricing_policy(df, 0 - a.price_change_percent, a.target_agency)
    IN  ret.op = "simulate_pricing_policy" =>
          /\ ret.value.projected.stressed_carparks
                = mirrored.projected.stressed_carparks
          /\ ret.value.projected.spillover_lots = mirrored.projected.spillover_lots
          /\ ret.value.projected.stressed_carparks
                <= ret.value.baseline.stressed_carparks

\* C30 witness: a 25% price cut that lowers the stressed count and spills
\* lots over, as the 25% rise does
C30_Witness ==
    /\ ret.op = "simulate_pricing_policy"
    /\ ret.args.price_change_percent = -25
    /\ ret.args.target_agency = "URA"
    /\ ret.value.projected.spillover_lots > 0
    /\ ret.value.projected.stressed_carparks < ret.value.baseline.stressed_carparks
    /\ pricing_policy(df, 25, "URA").projected = 
         [ret.value.projected EXCEPT
            !.total_available = pricing_policy(df, 25, "URA").projected.total_available,
            !.availability_change = 75]

----------------------------------------------------------------------------
(* Properties of compare_scenarios (SpecCompare) *)

\* C21: compare_scenarios ranks the scenarios without error by stress
\* reduction, greatest first, and recommends the first of the ranking: for
\* any mix of pricing and capacity results, a scenario whose projected
\* stressed count falls further below its baseline is never ranked after one
\* whose count falls less or rises.
C21_RankedByStressReduction ==
    LET scenarios == ret.args.scenarios
        valid == {k \in DOMAIN scenarios : "error" \notin DOMAIN scenarios[k]}
        fall(k) == scenarios[k].baseline.stressed_carparks
                     - scenarios[k].projected.stressed_carparks
        ranking == ret.value.ranking[1].by_stress_reduction
        place(k) == CHOOSE i \in DOMAIN ranking :
                       /\ ranking[i] = scenarios[k].scenario_name
                       /\ \A j \in 1..(i - 1) : ranking[j] # scenarios[k].scenario_name
    IN  (ret.op = "compare_scenarios" /\ valid # {}) =>
          /\ Len(ranking) = Cardinality(valid)
          /\ \A k \in valid : scenarios[k].scenario_name \in Range(ranking)
          /\ \A x, y \in valid : fall(x) > fall(y) => place(x) < place(y)
          /\ ret.value.recommendation = <<ranking[1]>>

----------------------------------------------------------------------------
(* Properties of to_dataframe (SpecFetch) *)

\* C22: every row of a dataset built by to_dataframe, whatever the raw
\* available-lot value (numeric, negative, missing or unparsable), has
\* AvailableLots >= 0, with 0 for an unparsable value, and its Status follows
\* from AvailableLots alone: Available above 50, Moderate above 10, Limited
\* otherwise.
C22_LotsNonNegativeStatusByLots ==
    ret.op = "to_dataframe" =>
        /\ Len(df) = Len(ret.args.data)
        /\ \A i \in DOMAIN df :
              /\ df[i].AvailableLots >= 0
              /\ ret.args.data[i][2].kind \in {"missing", "text"}
                    => df[i].AvailableLots = 0
              /\ df[i].Status = (IF df[i].AvailableLots > 50 THEN "Available"
                                 ELSE IF df[i].AvailableLots > 10 THEN "Moderate"
                                 ELSE "Limited")

----------------------------------------------------------------------------
(* Properties of haversine_distance (SpecDistance) *)

\* C24: haversine_distance returns 0 for a point paired with itself and is
\* symmetric: haversine(a, b) = haversine(b, a) for all points a and b.
C24_HaversineZeroAndSymmetric ==
    LET a == ret.args IN
    ret.op = "haversine_distance" =>
        /\ (a.lat1 = a.lat2 /\ a.lon1 = a.lon2) =>
              /\ ret.value.metres = 0
              /\ ret.value.mantissa = <<0, 0>>
        /\ ret.value = haversine_double(a.lat2, a.lon2, a.lat1, a.lon1)

\* C24 witness: the distance from a carpark point in Singapore to a point in
\* the southern hemisphere, thousands of kilometres away
C24_Witness ==
    /\ ret.op = "haversine_distance"
    /\ ret.args.lat1 = 1300 /\ ret.args.lon1 = 103800
    /\ ret.args.lat2 < 0
    /\ ret.value.metres > 1000000

----------------------------------------------------------------------------
(* The frame of the core operations (SpecCore) *)

\* C23: no core operation mutates the dataset it is given: across any
\* sequence of analytics, alert, tracker, search, nearest and simulation
\* calls within a tick the dataset's rows and fields are unchanged; the only
\* state that changes is the tracker's snapshot buffer, by add_snapshot, and
\* the alert system's alert list, by analyze_and_alert.
C23_DatasetNeverMutated ==
    [][/\ df' = df
       /\ max_snapshots' = max_snapshots
       /\ snapshots' # snapshots => add_snapshot
       /\ alerts' # alerts => analyze_and_alert]_vars

\* C23 witness: a snapshot has been stored, the alerts evaluated and a
\* search for the nearest carparks answered on a dataset with a row that
\* has no coordinates
C23_Witness ==
    /\ Len(snapshots) >= 1
    /\ alerts # <<>>
    /\ ret.op = "find_nearest"
    /\ ret.value # <<>>
    /\ \E i \in DOMAIN df : df[i].Latitude = <<>>

====
